---------------------------- MODULE Spec2Model ----------------------------
(***************************************************************************)
(* A model of the per-index engine of lnx (engine/src/index.rs):           *)
(*   - the writer actor (IndexWriterWorker) fed through a bounded channel  *)
(*     by IndexWriterHandler::send_op, with its queue of one-shot waiters; *)
(*   - the index it mutates (uncommitted state, committed state, and the   *)
(*     state the reader has loaded, ReloadPolicy::OnCommit);               *)
(*   - the reader handler (semaphore, searcher snapshot, pool work).       *)
(* The callers of the handler (producers and searchers) are the            *)
(* environment: each producer runs one of a few fixed programs of          *)
(* IndexHandler calls, chosen in Init. WriterOp::__Shutdown has no caller  *)
(* in the sources at hand: the contract of the writer names Shutdown as an *)
(* operation of enqueue, and in two scenarios the owner of the writer      *)
(* enqueues it through send_op, the only use of writer_sender              *)
(* (ShutdownAfter, Script); without it the worker never leaves its loop.   *)
(* tantivy is taken at its word: commit publishes the writer's state       *)
(* atomically, rollback restores the last commit, a call that fails        *)
(* leaves the writer as it was, and a Searcher is a fixed view.            *)
(*                                                                         *)
(* Beside the engine, each under a specification of its own:               *)
(*   - fn search applied to its arguments (SearchSpec);                    *)
(*   - the registry of index stores of lnx-controller/src/indexes.rs with  *)
(*     IndexStore::destroy of lnx-storage/src/stores.rs (RegistrySpec);    *)
(*   - the middleware check_permissions of lnx-server/src/routes/auth.rs   *)
(*     applied to one request (PermissionSpec), and the token handlers of  *)
(*     the same file, several at a time (AuthSpec). The                    *)
(*     AuthManager they call is not part of the sources at hand; its token *)
(*     table is taken from the way the handlers use it;                    *)
(*   - the local storage an IndexContext opens, lnx-common/src/index/      *)
(*     context.rs, across restarts of the process (StorageSpec);           *)
(*   - QueryHandler::create of engine/src/index/queries.rs and the fields  *)
(*     of build_loaded, applied to a context and a schema (QuerySpec);     *)
(*   - parse_fuzzy_query of engine/src/index.rs applied to a query string  *)
(*     and the search fields of a reader (FuzzySpec);                      *)
(*   - IndexContext::new, id, keyspace and root_storage_path of            *)
(*     lnx-common/src/index/context.rs (IdentitySpec);                     *)
(*   - the writer under load with its threads scheduled fairly, for what   *)
(*     has to happen in the end (LiveSpec).                                *)
(***************************************************************************)
EXTENDS Integers, Sequences, FiniteSets, Bags, TLC

(* channel::bounded(20), IndexWriterHandler::create *)
Capacity == 20

(* Number of documents of the add_many_documents burst: one more than the  *)
(* queue holds, so that the burst meets a full queue.                      *)
BurstDocs == 21

(* Number of concurrent callers of search, and the largest max_concurrency *)
(* an index is built with.                                                 *)
NSearchers == 2
MaxConcurrency == 2

(* The limit the callers of the scenarios search with: it covers every     *)
(* document their programs add.                                            *)
DefaultLimit == 10

(* The inputs fn search is applied to on its own: up to MaxMatches         *)
(* matching documents with scores and fast-field values in 1..MaxScore,    *)
(* limits up to MaxLimit and offsets up to MaxOffset.                      *)
MaxMatches == 3
MaxScore == 2
MaxLimit == 3
MaxOffset == 4

(* The calls made on the registry and on the stores it hands out. *)
MaxRegistryCalls == 3
MaxPending == 1
IndexNames == {"a", "b"}

(* The longest path of a request, in pieces, and the number of tokens      *)
(* create_token issues.                                                    *)
MaxPathLen == 6
MaxIssued == 1
MaxHandlers == 2

(* The number of processes started one after another on one base_path, and *)
(* the longest list of search fields a query layer is built from.          *)
MaxRuns == 3

MaxSearchFields == 2

(* The longest query string parse_fuzzy_query is given, in characters, and *)
(* the number of IndexContext values built.                                *)
MaxQueryLen == 3
MaxContexts == 2

Producers == {1, 2}
Searchers == 1..NSearchers

(* ---------------------------- writer operations ----------------------- *)

(* enum WriterOp. key is the document (or term) the operation carries, id  *)
(* names the call that made it: <<producer, position in its program>>.     *)
WriterOp(kind, key, p, n) == [kind |-> kind, key |-> key, id |-> <<p, n>>]

(* The operations handle_msg applies with `?`: they can fail. *)
Fallible(kind) == kind \in {"Commit", "Rollback", "DeleteAll"}

(* IndexHandler::add_many_documents: add_document for each document, in order. *)
AddMany(p, n) == [i \in 1..n |-> WriterOp("AddDocument", i, p, i)]

(* A program of calls on IndexHandler made one after another by one caller. *)
Calls(p, kinds, keys) ==
    [i \in 1..Len(kinds) |-> WriterOp(kinds[i], keys[i], p, i)]

Scenarios ==
    {"burst", "rollback", "delete", "retry", "readers", "query", "replay",
     "pressure", "abandon", "cancel"}

(* What each producer calls in each scenario. *)
Program(sc, p) ==
    CASE sc = "burst" /\ p = 1 ->
            AddMany(1, BurstDocs) \o <<WriterOp("Commit", 0, 1, BurstDocs + 1)>>
      [] sc = "rollback" /\ p = 1 ->
            Calls(1, <<"AddDocument", "Rollback", "AddDocument", "Commit">>,
                     <<1, 0, 2, 0>>)
      [] sc = "rollback" /\ p = 2 ->
            Calls(2, <<"Commit">>, <<0>>)
      [] sc = "delete" /\ p = 1 ->
            Calls(1, <<"AddDocument", "AddDocument", "Commit", "DeleteTerm", "Commit",
                       "DeleteAll", "Commit">>,
                     <<1, 2, 0, 1, 0, 0, 0>>)
      [] sc = "retry" /\ p = 1 ->
            Calls(1, <<"AddDocument", "Commit", "AddDocument", "Commit">>,
                     <<1, 0, 2, 0>>)
      [] sc = "retry" /\ p = 2 ->
            Calls(2, <<"Rollback">>, <<0>>)
      [] sc = "readers" /\ p = 1 ->
            Calls(1, <<"AddDocument", "Commit">>, <<1, 0>>)
      [] sc = "query" /\ p = 1 ->
            Calls(1, <<"AddDocument", "Commit">>, <<1, 0>>)
      [] sc = "replay" /\ p = 1 ->
            Calls(1, <<"AddDocument", "AddDocument", "Commit",
                       "AddDocument", "AddDocument", "Commit">>,
                     <<1, 2, 0, 1, 2, 0>>)
      [] sc = "pressure" /\ p = 1 ->
            AddMany(1, BurstDocs) \o <<WriterOp("Commit", 0, 1, BurstDocs + 1)>>
      [] sc = "abandon" /\ p = 1 ->
            AddMany(1, BurstDocs)
      [] OTHER -> << >>

(* The contract of the writer has Shutdown among the operations of        *)
(* enqueue, and no function of IndexHandler sends it. Where a scenario has *)
(* one, the owner of the writer enqueues WriterOp::__Shutdown through      *)
(* send_op once so many calls of the producer's program have returned;     *)
(* -1 where it has none.                                                   *)
ShutdownAfter(sc, p) ==
    CASE sc = "burst" /\ p = 2  -> 0
      [] sc = "delete" /\ p = 1 -> 6
      [] OTHER                  -> -1

(* What each producer sends through send_op: the calls of its program,     *)
(* and the Shutdown where the scenario has one.                            *)
Script(sc, p) ==
    LET prog == Program(sc, p)
        k == ShutdownAfter(sc, p)
    IN  IF k < 0 THEN prog
        ELSE SubSeq(prog, 1, k) \o <<WriterOp("__Shutdown", 0, p, 0)>>
                 \o SubSeq(prog, k + 1, Len(prog))

(* The callers that search in each scenario, once each. *)
ActiveSearchers(sc) ==
    CASE sc \in {"burst", "pressure", "abandon"} -> {}
      [] sc = "readers" -> Searchers
      [] sc = "cancel"  -> {1, 2}
      [] OTHER          -> {1}

(* What the callers drop in each scenario: the producers that may drop a   *)
(* suspended send_op future, the callers that may drop a search future     *)
(* that waits for its result, and whether the owner drops the handler,     *)
(* and with it the only Sender, once its calls have returned.              *)
Drops(sc) ==
    [send    |-> IF sc = "abandon" THEN {1} ELSE {},
     search  |-> IF sc = "cancel" THEN {1, 2} ELSE {},
     handler |-> sc = "pressure"]

(* The max_concurrency of the LoadedIndex the index can be built from. *)
Concurrencies(sc) == IF sc = "readers" THEN 1..MaxConcurrency ELSE {1}

VARIABLES
    scenario,   \* the programs the callers run
    maxc,       \* max_concurrency of the LoadedIndex
    queue,      \* the bounded channel tx/rx: operations sent and not yet received
    waiters,    \* SegQueue<oneshot::Sender<()>>: the producer behind each sender
    signalled,  \* producers whose one-shot has been sent to
    senders,    \* writer_sender, the only Sender: "held" or "dropped"
    wpc,        \* where the worker is: "process", "wake", "drain", "exited"
    ppc,        \* where each producer is in send_op ("dropped": its future was dropped)
    pidx,       \* how many of its calls have returned Ok, per producer
    working,    \* the IndexWriter's state: committed documents and uncommitted changes
    committed,  \* the documents of the last commit
    committedGen, \* the number of operations handled when that commit was made
    loaded,     \* the documents of the commit the IndexReader has loaded
    loadedGen,  \* the generation of that commit
    accepted,   \* history: the operations try_send accepted, in order
    applied,    \* history: the operations handle_msg handled, in order, with outcome
    retried     \* history: the ids of the operations accepted after a wake-up

VARIABLES
    permits,    \* the free permits of the Semaphore `limiter`
    spc,        \* where each caller of search is
    payload,    \* the QueryPayload each caller passed to search
    job,        \* limit, offset and order_by moved into the pool closure
    snap,       \* the documents of the Searcher the search obtained
    res,        \* what the pool worker sent through the one-shot
    out,        \* how the call of search ended
    ghost       \* per caller: how many operations were accepted when the
                \* search began (beganAcc), the generation of the searcher
                \* the search obtained (snapGen), and the payload its
                \* validation refused (refused)

wvars == <<queue, waiters, signalled, senders, wpc, ppc, pidx>>
ivars == <<working, committed, committedGen, loaded, loadedGen>>
hvars == <<accepted, applied, retried>>
rvars == <<permits, spc, payload, job, snap, res, out, ghost>>

VARIABLES
    sargs,      \* fn search on its own: the arguments it is applied to
    sret        \* and what it returned ("none" before the call)

fvars == <<sargs, sret>>

VARIABLES
    cell,       \* static INDEXES: whether the OnceCell is initialised
    indexes,    \* the DashMap in it: index name -> IndexStore
    dirs,       \* the index names that have a directory on disk
    running,    \* the stores whose writer and poller run
    pending,    \* the stores of the calls of new suspended at setup(..).await
    calls       \* history: the calls that returned, with what they returned

gvars == <<cell, indexes, dirs, running, pending, calls>>

VARIABLES
    authEnabled, \* AuthManager: whether a super user key was given
    tokens,     \* AuthManager: token -> the flags of its permissions
    stored,     \* the token table the storage holds
    handler,    \* the token handlers in progress and how far each is
    resp,       \* what the last handler answered
    lastCheck,  \* the last request check_permissions saw, and its outcome
    issued,     \* history: every token there has been
    revoked     \* history: the tokens revoked

avars == <<authEnabled, tokens, stored, handler, resp, lastCheck, issued, revoked>>

VARIABLES
    declared,   \* the schema of the IndexContext of the running process
    disk,       \* what {base_path}/{id} holds
    held,       \* the handles the running process has opened
    runs,       \* the number of processes started so far
    lastOpen    \* the last call the running process made on the context

dvars == <<declared, disk, held, runs, lastOpen>>

VARIABLES
    qargs,      \* the query layer on its own: the context and schema it is built from
    qret,       \* what QueryHandler::create returned
    bret        \* what IndexHandler::build_loaded returned

qvars == <<qargs, qret, bret>>

VARIABLES
    zargs,      \* parse_fuzzy_query on its own: the query and the search fields of the reader
    zret        \* the boolean query parse_fuzzy_query returned

zvars == <<zargs, zret>>

VARIABLES
    ctxs        \* the IndexContext values built so far, oldest first

kvars == <<ctxs>>

(* The variables of each component, and those of all the others. *)
evars == <<scenario, maxc, wvars, ivars, hvars, rvars>>
nonEngine == <<fvars, gvars, avars, dvars, qvars, zvars, kvars>>
nonSearch == <<evars, gvars, avars, dvars, qvars, zvars, kvars>>
nonRegistry == <<evars, fvars, avars, dvars, qvars, zvars, kvars>>
nonAuth == <<evars, fvars, gvars, dvars, qvars, zvars, kvars>>
nonStorage == <<evars, fvars, gvars, avars, qvars, zvars, kvars>>
nonQuery == <<evars, fvars, gvars, avars, dvars, zvars, kvars>>
nonFuzzy == <<evars, fvars, gvars, avars, dvars, qvars, kvars>>
nonIdentity == <<evars, fvars, gvars, avars, dvars, qvars, zvars>>
vars == <<evars, fvars, gvars, avars, dvars, qvars, zvars, kvars>>

(* ------------------------------ the index ----------------------------- *)

(* A document in the index: its key and the AddDocument call that added it. *)
Entry(op) == [key |-> op.key, id |-> op.id]

(* A writer whose rollback keeps the uncommitted changes. *)
HandleWorkingKeeps(op, ok, w, c) ==
    CASE op.kind = "AddDocument" -> w \cup {[key |-> op.key, id |-> op.id]}
      [] op.kind = "DeleteTerm"  -> {e \in w : e.key # op.key}
      [] op.kind = "DeleteAll"   -> IF ok THEN {} ELSE w
      [] OTHER                   -> w

(* IndexWriterWorker::handle_msg on the IndexWriter: the writer's state and *)
(* the last commit after `op`, which succeeded (ok) or failed.              *)
HandleWorking(op, ok, w, c) ==
    CASE op.kind = "AddDocument" -> w \cup {Entry(op)}
      [] op.kind = "DeleteTerm"  -> {e \in w : e.key # op.key}
      [] op.kind = "DeleteAll"   -> IF ok THEN {} ELSE w
      [] op.kind = "Rollback"    -> IF ok THEN c ELSE w
      [] OTHER                   -> w

HandleCommitted(op, ok, w, c) ==
    IF op.kind = "Commit" /\ ok THEN w ELSE c

(* A worker that leaves its loop on a failed operation. *)
StopsOnError(op, ok) == op.kind = "__Shutdown" \/ ~ok

(* Result<bool> of handle_msg as process_messages reads it: TRUE stops the loop. *)
StopsWorker(op, ok) == op.kind = "__Shutdown"

(* ------------------------------ send_op ------------------------------- *)

(* A channel that accepts messages after its receiver is gone. *)
TrySendIgnoresDisconnect(q, disconnected) ==
    IF Len(q) >= Capacity THEN "Full" ELSE "Ok"

(* A channel that takes one message more than its capacity. *)
TrySendOffByOne(q, disconnected) ==
    IF disconnected THEN "Disconnected"
    ELSE IF Len(q) > Capacity THEN "Full"
    ELSE "Ok"

(* crossbeam try_send on the bounded channel. *)
TrySendResult(q, disconnected) ==
    IF disconnected THEN "Disconnected"
    ELSE IF Len(q) >= Capacity THEN "Full"
    ELSE "Ok"

(* A channel that hands out the newest message first. *)
EnqueueLifo(q, op) == <<op>> \o q

(* The channel is first in, first out. *)
Enqueue(q, op) == Append(q, op)

Disconnected == wpc = "exited"

HasNext(p) == pidx[p] < Len(Script(scenario, p))
NextOp(p) == Script(scenario, p)[pidx[p] + 1]

(* A send_op that gives the operation up when the queue is full. *)
AfterFullSkips(i) == i + 1

(* Err(TrySendError::Full(v)) => v: the operation the queue refused is the *)
(* one the next try_send sends; i is the number of calls that returned Ok. *)
AfterFull(i) == i

(* send_op: one try_send, first or after a wake-up. *)
TrySend(p) ==
    /\ ppc[p] \in {"ready", "retry"}
    /\ HasNext(p)
    /\ LET r == TrySendResult(queue, Disconnected) IN
         CASE r = "Ok" ->
                /\ queue' = Enqueue(queue, NextOp(p))
                /\ accepted' = Append(accepted, NextOp(p))
                /\ retried' = IF ppc[p] = "retry"
                              THEN retried \cup {NextOp(p).id} ELSE retried
                /\ pidx' = [pidx EXCEPT ![p] = @ + 1]
                /\ ppc' = [ppc EXCEPT ![p] = "ready"]
           [] r = "Disconnected" ->
                /\ ppc' = [ppc EXCEPT ![p] = "failed"]
                /\ UNCHANGED <<queue, accepted, retried, pidx>>
           [] OTHER ->
                /\ ppc' = [ppc EXCEPT ![p] = "full"]
                /\ pidx' = [pidx EXCEPT ![p] = AfterFull(@)]
                /\ UNCHANGED <<queue, accepted, retried>>
    /\ UNCHANGED <<nonEngine, scenario, maxc, waiters, signalled, senders, wpc, ivars, applied, rvars>>

(* send_op: self.writer_waiters.push(resolve) *)
Register(p) ==
    /\ ppc[p] = "full"
    /\ waiters' = Append(waiters, p)
    /\ ppc' = [ppc EXCEPT ![p] = "await"]
    /\ UNCHANGED <<nonEngine, scenario, maxc, queue, signalled, senders, wpc, pidx, ivars, hvars, rvars>>

(* The send_op future is dropped while it is suspended on waiter.await:   *)
(* the operation and the Receiver go with it, the Sender pushed on          *)
(* writer_waiters stays where it is.                                        *)
DropSend(p) ==
    /\ ppc[p] = "await"
    /\ p \in Drops(scenario).send
    /\ ppc' = [ppc EXCEPT ![p] = "dropped"]
    /\ signalled' = signalled \ {p}
    /\ UNCHANGED <<nonEngine, scenario, maxc, queue, waiters, senders, wpc, pidx, ivars, hvars, rvars>>

(* The IndexHandler is dropped after its calls have returned: the channel  *)
(* has no Sender left.                                                     *)
DropHandler ==
    /\ Drops(scenario).handler
    /\ senders = "held"
    /\ \A p \in Producers : ppc[p] = "ready" /\ ~HasNext(p)
    /\ senders' = "dropped"
    /\ UNCHANGED <<nonEngine, scenario, maxc, queue, waiters, signalled, wpc, ppc, pidx, ivars, hvars, rvars>>

(* send_op: waiter.await returns once the one-shot was sent to. *)
Resume(p) ==
    /\ ppc[p] = "await"
    /\ p \in signalled
    /\ signalled' = signalled \ {p}
    /\ ppc' = [ppc EXCEPT ![p] = "retry"]
    /\ UNCHANGED <<nonEngine, scenario, maxc, queue, waiters, senders, wpc, pidx, ivars, hvars, rvars>>

(* ------------------------------ the worker ---------------------------- *)

(* A channel whose receiver takes the newest message. *)
DequeueNewest(q) == q[Len(q)]

(* The message try_recv takes. *)
Dequeue(q) == Head(q)

(* process_messages: one try_recv that returned a message, and handle_msg. *)
Recv(ok) ==
    /\ wpc = "process"
    /\ queue # << >>
    /\ LET op == Dequeue(queue) IN
         /\ ok \/ Fallible(op.kind)
         /\ queue' = Tail(queue)
         /\ applied' = Append(applied, [op |-> op, ok |-> ok])
         /\ working' = HandleWorking(op, ok, working, committed)
         /\ committed' = HandleCommitted(op, ok, working, committed)
         /\ committedGen' = IF op.kind = "Commit" /\ ok
                            THEN Len(applied) + 1 ELSE committedGen
         /\ wpc' = IF StopsWorker(op, ok) THEN "drain" ELSE "process"
    /\ UNCHANGED <<nonEngine, scenario, maxc, waiters, signalled, senders, ppc, pidx, loaded, loadedGen, accepted, retried, rvars>>

(* process_messages: try_recv found nothing, the loop of start goes on to wake. *)
RecvEmpty ==
    /\ wpc = "process"
    /\ queue = << >>
    /\ wpc' = "wake"
    /\ UNCHANGED <<nonEngine, scenario, maxc, queue, waiters, signalled, senders, ppc, pidx, ivars, hvars, rvars>>

(* start: while let Some(waiter) = self.waiters.pop() { waiter.send(()) }; *)
(* the send to a Receiver that was dropped fails and is ignored.           *)
PopWaiter ==
    /\ wpc \in {"wake", "drain"}
    /\ waiters # << >>
    /\ signalled' = IF ppc[Head(waiters)] = "dropped" THEN signalled
                    ELSE signalled \cup {Head(waiters)}
    /\ waiters' = Tail(waiters)
    /\ UNCHANGED <<nonEngine, scenario, maxc, queue, senders, wpc, ppc, pidx, ivars, hvars, rvars>>

(* start: the waiters queue is empty; back to process_messages, or, after  *)
(* the loop was left, the worker returns and its receiver is dropped.      *)
NoWaiter ==
    /\ wpc \in {"wake", "drain"}
    /\ waiters = << >>
    /\ wpc' = IF wpc = "wake" THEN "process" ELSE "exited"
    /\ UNCHANGED <<nonEngine, scenario, maxc, queue, waiters, signalled, senders, ppc, pidx, ivars, hvars, rvars>>

(* ReloadPolicy::OnCommit: the reader loads the commit some time after it. *)
Reload ==
    /\ loadedGen # committedGen
    /\ loaded' = committed
    /\ loadedGen' = committedGen
    /\ UNCHANGED <<nonEngine, scenario, maxc, wvars, working, committed, committedGen, hvars, rvars>>

(* ------------------------------ the reader ---------------------------- *)

(* QueryPayload: mode, the query string ("none", "ok", or "bad": one the   *)
(* query parser refuses), the reference document ("none", "ok": an address *)
(* that converts, or "bad": one RefAddress::try_from refuses), limit,      *)
(* offset and order_by ("none", "fast": a field of the schema, "missing":  *)
(* a name the schema does not have).                                       *)
QueryPayload(mode, query, ref) ==
    [mode |-> mode, query |-> query, ref |-> ref,
     limit |-> DefaultLimit, offset |-> 0, order_by |-> "none"]

NoPayload ==
    [mode |-> "none", query |-> "none", ref |-> "none",
     limit |-> 0, offset |-> 0, order_by |-> "none"]

Modes == {"Normal", "Fuzzy", "MoreLikeThis"}

Payloads ==
    { QueryPayload("Normal", "ok", "none"),
      QueryPayload("Fuzzy", "none", "none"),
      QueryPayload("MoreLikeThis", "none", "bad") }

(* Every mode with every query string and reference document. *)
AllPayloads ==
    { QueryPayload(m, q, r) :
        m \in Modes, q \in {"none", "ok", "bad"}, r \in {"none", "ok", "bad"} }

(* The payloads the callers of each scenario search with: every payload in *)
(* "query", one that is valid and one that is refused among the concurrent *)
(* callers of "readers".                                                   *)
PayloadsOf(sc) ==
    CASE sc = "query"   -> AllPayloads
      [] sc = "readers" -> { QueryPayload("Normal", "ok", "none"),
                             QueryPayload("Fuzzy", "none", "none") }
      [] sc = "cancel"  -> { QueryPayload("Normal", "ok", "none") }
      [] OTHER          -> Payloads

(* search: RefAddress::try_from(doc)?, when a reference document is given. *)
RefAddressOk(pl) == pl.ref # "bad"

(* A parse_query that builds a Fuzzy query without a query string. *)
ParseQueryFuzzyLax(pl) ==
    CASE pl.mode = "Normal"       -> pl.query = "ok"
      [] pl.mode = "Fuzzy"        -> TRUE
      [] pl.mode = "MoreLikeThis" -> pl.ref # "none"
      [] OTHER                    -> FALSE

(* IndexReaderHandler::parse_query: whether a query is built. Normal hands *)
(* the string to the query parser, whose error `?` returns; Fuzzy and      *)
(* MoreLikeThis build their query from whatever they are given.            *)
ParseQueryOk(pl) ==
    CASE pl.mode = "Normal"       -> pl.query = "ok"
      [] pl.mode = "Fuzzy"        -> pl.query # "none"
      [] pl.mode = "MoreLikeThis" -> pl.ref # "none"
      [] OTHER                    -> FALSE

(* self.quick_schema.get_field(&field): Some(field) if the schema has it. *)
GetField(name) == IF name = "fast" THEN "fast" ELSE "none"

(* What the closure handed to the pool captures besides query and searcher. *)
Job(pl) == [limit |-> pl.limit, offset |-> pl.offset, order_by |-> GetField(pl.order_by)]

NoJob == [limit |-> 0, offset |-> 0, order_by |-> "none"]

(* struct QueryResults, or what came instead of it: the backend's error    *)
(* (fault "error"), or a panic of the pool worker (fault "panic").         *)
Err == [ok |-> FALSE, hits |-> << >>, count |-> 0, fault |-> "error"]
Panicked == [ok |-> FALSE, hits |-> << >>, count |-> 0, fault |-> "panic"]
NotRun == [ok |-> FALSE, hits |-> << >>, count |-> 0, fault |-> "notrun"]

(* struct QueryHit *)
QueryHit(m) == [ref_address |-> m.addr, doc |-> m.doc]

(* search!: count = top_docs.len(), one hit pushed for each top document. *)
QueryResults(top) ==
    [ok |-> TRUE, hits |-> [i \in 1..Len(top) |-> QueryHit(top[i])],
     count |-> Len(top), fault |-> "none"]

(* The order of the TopDocs collector fn search builds: higher score       *)
(* first, the lower address first among equal scores. order_by is a        *)
(* parameter of fn search that its body never reads.                       *)
Before(a, b, order_by) ==
    \/ a.score > b.score
    \/ a.score = b.score /\ a.addr < b.addr

RECURSIVE Ranked(_, _)
Ranked(ms, order_by) ==
    IF ms = {} THEN << >>
    ELSE LET first == CHOOSE a \in ms : \A b \in ms \ {a} : Before(a, b, order_by)
         IN  <<first>> \o Ranked(ms \ {first}, order_by)

(* .and_offset(offset): the collector skips `offset` of the ranked         *)
(* matches and keeps up to `limit` after them.                             *)
TopDocs(ms, limit, offset, order_by) ==
    LET r == Ranked(ms, order_by) IN
    IF offset >= Len(r) THEN << >>
    ELSE SubSeq(r, offset + 1, IF offset + limit < Len(r) THEN offset + limit ELSE Len(r))

(* fn search on the matches `ms` of the query in the searcher: the         *)
(* QueryResults, the error of search_with_executor or of searcher.doc      *)
(* (ok = FALSE), or the panic of TopDocs::with_limit, which asserts that   *)
(* the limit is at least 1.                                                *)
Search(ms, j, ok) ==
    IF j.limit < 1 THEN Panicked
    ELSE IF ~ok THEN Err
    ELSE QueryResults(TopDocs(ms, j.limit, j.offset, j.order_by))

(* The address of a document in the index, in the order of the additions. *)
AddressOf(e) == (e.id[2] - 1) * Cardinality(Producers) + e.id[1]

(* The matches of a caller's query among the documents of a searcher: the  *)
(* callers' queries match every document, and score by the document's key. *)
Matches(docs) ==
    { [addr |-> AddressOf(e), score |-> e.key, fast |-> e.key, doc |-> e] : e \in docs }

NoGhost == [beganAcc |-> 0, snapGen |-> 0, refused |-> NoPayload]

(* A caller calls search. *)
Call(s, pl) ==
    /\ spc[s] = "idle"
    /\ s \in ActiveSearchers(scenario)
    /\ spc' = [spc EXCEPT ![s] = "acquire"]
    /\ payload' = [payload EXCEPT ![s] = pl]
    /\ ghost' = [ghost EXCEPT ![s].beganAcc = Len(accepted)]
    /\ UNCHANGED <<nonEngine, scenario, maxc, wvars, ivars, hvars, permits, job, snap, res, out>>

(* A semaphore that always grants. *)
CanAcquireAlways(n) == TRUE

(* Semaphore::acquire: whether a permit can be taken. *)
CanAcquire(n) == n > 0

(* search: let _permit = self.limiter.acquire().await?; *)
Acquire(s) ==
    /\ spc[s] = "acquire"
    /\ CanAcquire(permits)
    /\ permits' = permits - 1
    /\ spc' = [spc EXCEPT ![s] = "held"]
    /\ UNCHANGED <<nonEngine, scenario, maxc, wvars, ivars, hvars, payload, job, snap, res, out, ghost>>

(* A searcher over the writer's uncommitted state. *)
SearcherUncommitted == working

(* self.reader.searcher(): the documents the searcher sees. *)
SearcherDocs == loaded

(* A permit that is not given back. *)
PermitLeaked(n) == n

(* A permit that is given back twice. *)
PermitDroppedTwice(n) == n + 2

(* The SemaphorePermit _permit is dropped: the permit goes back. *)
PermitDropped(n) == n + 1

(* self.reader.searcher() can return: the reader was built with           *)
(* num_searchers(max_concurrency), a searcher moved into a closure is out  *)
(* of the reader's pool until the pool has run the closure, and a reload   *)
(* puts max_concurrency new searchers in the place of the old ones. With   *)
(* none free the call waits.                                               *)
SearcherFree ==
    Cardinality({ x \in Searchers : /\ spc[x] \in {"running", "abandoned"}
                                    /\ ghost[x].snapGen = loadedGen }) < maxc

(* search, from the permit to thread_pool.spawn: the payload is checked    *)
(* (`?` returns the error and drops the permit), the searcher is obtained  *)
(* once one is free, and the work is handed to the pool, the payload       *)
(* moved into it.                                                          *)
Dispatch(s) ==
    /\ spc[s] = "held"
    /\ IF RefAddressOk(payload[s]) /\ ParseQueryOk(payload[s])
       THEN /\ SearcherFree
            /\ snap' = [snap EXCEPT ![s] = SearcherDocs]
            /\ job' = [job EXCEPT ![s] = Job(payload[s])]
            /\ ghost' = [ghost EXCEPT ![s].snapGen = loadedGen]
            /\ spc' = [spc EXCEPT ![s] = "running"]
            /\ UNCHANGED <<permits, out>>
       ELSE /\ out' = [out EXCEPT ![s] = [kind |-> "Err", value |-> Err]]
            /\ permits' = PermitDropped(permits)
            /\ spc' = [spc EXCEPT ![s] = "done"]
            /\ ghost' = [ghost EXCEPT ![s] = [NoGhost EXCEPT !.refused = payload[s]]]
            /\ UNCHANGED <<snap, job>>
    /\ payload' = [payload EXCEPT ![s] = NoPayload]
    /\ UNCHANGED <<nonEngine, scenario, maxc, wvars, ivars, hvars, res>>

(* A search that reads what the reader has loaded when the work runs. *)
SearchedLate(s) == loaded

(* The documents the pool worker's search reads: those of its searcher. *)
SearchedDocs(s) == snap[s]

(* The closure run by the thread pool: res = search(query, searcher, ...),  *)
(* sent through the one-shot; the send to a dropped Receiver fails and is  *)
(* ignored.                                                                *)
PoolRun(s, ok) ==
    /\ spc[s] \in {"running", "abandoned"}
    /\ res' = [res EXCEPT ![s] = Search(Matches(SearchedDocs(s)), job[s], ok)]
    /\ spc' = [spc EXCEPT ![s] = IF spc[s] = "running" THEN "computed"
                                  ELSE "dropped"]
    /\ UNCHANGED <<nonEngine, scenario, maxc, wvars, ivars, hvars, permits, payload, job, snap, out, ghost>>

(* The search future is dropped while it is suspended on waiter.await,     *)
(* before or after the pool has run the closure: _permit and the Receiver  *)
(* are dropped with it, the closure belongs to the pool.                   *)
DropSearch(s) ==
    /\ spc[s] \in {"running", "computed"}
    /\ s \in Drops(scenario).search
    /\ permits' = PermitDropped(permits)
    /\ spc' = [spc EXCEPT ![s] = IF spc[s] = "running" THEN "abandoned"
                                  ELSE "dropped"]
    /\ UNCHANGED <<nonEngine, scenario, maxc, wvars, ivars, hvars, payload, job, snap, res, out, ghost>>

(* What search hands to its caller after `let _ = waiter.await;`: the code  *)
(* drops the received value and runs todo!(), which panics.                *)
SearchReturn(r) == [kind |-> "panic", value |-> Err]

(* search: waiter.await returns and the function ends; _permit is dropped. *)
Finish(s) ==
    /\ spc[s] = "computed"
    /\ out' = [out EXCEPT ![s] = SearchReturn(res[s])]
    /\ permits' = PermitDropped(permits)
    /\ spc' = [spc EXCEPT ![s] = "done"]
    /\ snap' = [snap EXCEPT ![s] = {}]
    /\ job' = [job EXCEPT ![s] = NoJob]
    /\ ghost' = [ghost EXCEPT ![s] = NoGhost]
    /\ UNCHANGED <<nonEngine, scenario, maxc, wvars, ivars, hvars, payload, res>>

(* The engine after IndexHandler::build_loaded, before any call. *)
EngineStart ==
    /\ queue = << >>
    /\ waiters = << >>
    /\ signalled = {}
    /\ senders = "held"
    /\ wpc = "process"
    /\ ppc = [p \in Producers |-> "ready"]
    /\ pidx = [p \in Producers |-> 0]
    /\ working = {}
    /\ committed = {}
    /\ committedGen = 0
    /\ loaded = {}
    /\ loadedGen = 0
    /\ accepted = << >>
    /\ applied = << >>
    /\ retried = {}
    /\ permits = maxc
    /\ spc = [s \in Searchers |-> "idle"]
    /\ payload = [s \in Searchers |-> NoPayload]
    /\ job = [s \in Searchers |-> NoJob]
    /\ snap = [s \in Searchers |-> {}]
    /\ res = [s \in Searchers |-> Err]
    /\ out = [s \in Searchers |-> [kind |-> "none", value |-> Err]]
    /\ ghost = [s \in Searchers |-> NoGhost]

(* No caller and no program: the engine as the other components have it. *)
EngineIdle ==
    /\ scenario = "none"
    /\ maxc = 1
    /\ EngineStart

(* ------------------------- fn search on its own ------------------------ *)

(* The matches of a query: n documents at the addresses 1..n, each with a  *)
(* score and a fast-field value.                                           *)
MatchSets ==
    UNION { { { [addr |-> i, score |-> f[i][1], fast |-> f[i][2], doc |-> i] : i \in 1..n } :
                f \in [1..n -> (1..MaxScore) \X (1..MaxScore)] } :
            n \in 0..MaxMatches }

SearchArgs ==
    [docs : MatchSets, limit : 0..MaxLimit, offset : 0..MaxOffset,
     order_by : {"none", "fast", "missing"}]

NoArgs == [docs |-> {}, limit |-> 0, offset |-> 0, order_by |-> "none"]

(* search(query, searcher, executor, limit, offset, schema, order_by), the *)
(* order_by resolved as IndexReaderHandler::search resolves it.            *)
ApplySearch(ok) ==
    /\ sret = NotRun
    /\ sret' = Search(sargs.docs, Job(sargs), ok)
    /\ UNCHANGED <<nonSearch, sargs>>

SearchStart ==
    /\ sargs = NoArgs
    /\ sret = NotRun

(* ----------------------------- the registry ---------------------------- *)

(* An IndexStore: the name of its context and the call of new that built   *)
(* it (clones of a store are the same store).                              *)
Store(name, serial) == [name |-> name, serial |-> serial]

NoStore == [name |-> "", serial |-> 0]

(* One call on the registry or on a store, as the history keeps it. *)
RegistryCall(op, name, store, ret, live) ==
    [op |-> op, name |-> name, store |-> store, ret |-> ret, running |-> live]

(* INDEXES.get()?.get(index_name)?: the store under the name, if the cell  *)
(* is initialised and the map has the name.                                *)
RegistryGet(c, m, name) ==
    IF c /\ name \in DOMAIN m THEN m[name] ELSE NoStore

(* DashMap::insert: the entry of the name is set, whatever was there. *)
RegistryInsert(m, name, store) ==
    [n \in DOMAIN m \cup {name} |-> IF n = name THEN store ELSE m[n]]

(* A map whose remove hands out the entry and keeps it. *)
RegistryRemoveKeeps(m, name) == m

(* DashMap::remove: the map without the name. *)
RegistryRemove(m, name) == [n \in DOMAIN m \ {name} |-> m[n]]

(* The registry says new starts the writer and the poller of the index;   *)
(* the code of new starts nothing, and the sources at hand have no code    *)
(* that does. The stores whose writer and poller run once those of `store` *)
(* were started.                                                           *)
Started(live, store) == live \cup {store}

(* The stores whose writer and poller run after destroy(store): destroy    *)
(* calls clear_local_data and nothing else.                                *)
AfterDestroy(live, store) == live

(* The handles callers hold: the stores get and remove have returned. *)
Handles ==
    { calls[i].store : i \in { i \in 1..Len(calls) :
                                 calls[i].op \in {"get", "remove"} /\ calls[i].ret = "Some" } }

(* The calls made so far, those of new that have not returned included. *)
CallsBegun == Len(calls) + Cardinality(pending)

(* IndexContext::get_or_create_index, which gives the caller the Index it  *)
(* hands to new: create_dir_all makes the directory of the index.          *)
MakeIndex(name) ==
    /\ dirs' = dirs \cup {name}
    /\ UNCHANGED <<nonRegistry, cell, indexes, running, pending, calls>>

(* indexes::new, up to ScyllaIndexStore::setup(..).await, where the task   *)
(* is suspended; the store is named after the place of the call among the  *)
(* calls begun.                                                            *)
NewBegin(name) ==
    /\ CallsBegun < MaxRegistryCalls
    /\ Cardinality(pending) < MaxPending
    /\ pending' = pending \cup {Store(name, CallsBegun + 1)}
    /\ UNCHANGED <<nonRegistry, cell, indexes, dirs, running, calls>>

(* indexes::new, from the end of the set-up: `?` returns its error, and    *)
(* nothing is inserted; otherwise the store is built and inserted.         *)
NewEnd(store, setupOk) ==
    /\ store \in pending
    /\ pending' = pending \ {store}
    /\ IF setupOk
       THEN /\ cell' = TRUE
            /\ indexes' = RegistryInsert(indexes, store.name, store)
            /\ calls' = Append(calls, RegistryCall("new", store.name, store, "Ok", FALSE))
       ELSE /\ calls' = Append(calls, RegistryCall("new", store.name, NoStore, "Err", FALSE))
            /\ UNCHANGED <<cell, indexes>>
    /\ UNCHANGED <<nonRegistry, dirs, running>>

(* The writer and the poller of the store the last call registered are     *)
(* started.                                                                *)
StartIndexer(name) ==
    /\ cell /\ name \in DOMAIN indexes
    /\ indexes[name] \notin running
    /\ calls[Len(calls)].op = "new" /\ calls[Len(calls)].store = indexes[name]
    /\ running' = Started(running, indexes[name])
    /\ UNCHANGED <<nonRegistry, cell, indexes, dirs, pending, calls>>

(* indexes::get *)
Get(name) ==
    /\ CallsBegun < MaxRegistryCalls
    /\ LET store == RegistryGet(cell, indexes, name) IN
         calls' = Append(calls, RegistryCall("get", name, store,
                            IF store = NoStore THEN "None" ELSE "Some", FALSE))
    /\ UNCHANGED <<nonRegistry, cell, indexes, dirs, running, pending>>

(* indexes::remove *)
Remove(name) ==
    /\ CallsBegun < MaxRegistryCalls
    /\ LET store == RegistryGet(cell, indexes, name) IN
         /\ calls' = Append(calls, RegistryCall("remove", name, store,
                               IF store = NoStore THEN "None" ELSE "Some", FALSE))
         /\ indexes' = IF store = NoStore THEN indexes ELSE RegistryRemove(indexes, name)
    /\ UNCHANGED <<nonRegistry, cell, dirs, running, pending>>

(* IndexStore::destroy on a handle: clear_local_data removes the directory *)
(* of the index, and fails if it is not there.                             *)
Destroy(store) ==
    /\ CallsBegun < MaxRegistryCalls
    /\ store \in Handles
    /\ running' = AfterDestroy(running, store)
    /\ IF store.name \in dirs
       THEN /\ dirs' = dirs \ {store.name}
            /\ calls' = Append(calls, RegistryCall("destroy", store.name, store, "Ok",
                                                   store \in running'))
       ELSE /\ dirs' = dirs
            /\ calls' = Append(calls, RegistryCall("destroy", store.name, store, "Err", FALSE))
    /\ UNCHANGED <<nonRegistry, cell, indexes, pending>>

(* static INDEXES: OnceCell::new(), and no index on disk. *)
RegistryStart ==
    /\ cell = FALSE
    /\ indexes = << >>
    /\ dirs = {}
    /\ running = {}
    /\ pending = {}
    /\ calls = << >>

(* ------------------------------- the auth ------------------------------ *)

(* permissions::*, the flags of a token's bitmask. *)
Permissions ==
    {"MODIFY_AUTH", "MODIFY_ENGINE", "SEARCH_INDEX", "MODIFY_STOP_WORDS", "MODIFY_DOCUMENTS"}

(* The bitmasks the tokens of the checks carry: no flag, one flag, all. *)
PermSets == {{}} \cup { {f} : f \in Permissions } \cup {Permissions}

(* A path is the sequence of the pieces of its text: "/", the words the    *)
(* middleware looks for, and "x" for any other text without a slash.       *)
Chunks == {"/", "auth", "indexes", "search", "stopwords", "x"}

(* The paths of requests: they begin with a slash. *)
Paths ==
    UNION { { p \in [1..n -> Chunks] : p[1] = "/" } : n \in 1..MaxPathLen }

(* str::starts_with and str::ends_with *)
StartsWith(path, pre) ==
    Len(path) >= Len(pre) /\ SubSeq(path, 1, Len(pre)) = pre

EndsWith(path, suf) ==
    Len(path) >= Len(suf) /\ SubSeq(path, Len(path) - Len(suf) + 1, Len(path)) = suf

(* check_permissions: the permission the path asks for, "404" if none. *)
RequiredPermission(path) ==
    IF StartsWith(path, <<"/", "auth">>) THEN "MODIFY_AUTH"
    ELSE IF path = <<"/", "indexes">> THEN "MODIFY_ENGINE"
    ELSE IF StartsWith(path, <<"/", "indexes">>)
         THEN IF EndsWith(path, <<"/", "search">>) THEN "SEARCH_INDEX"
              ELSE IF EndsWith(path, <<"/", "stopwords">>) THEN "MODIFY_STOP_WORDS"
              ELSE "MODIFY_DOCUMENTS"
    ELSE "404"

(* The Authorization header: absent, bytes that are no string, or a token. *)
NoHeader == [kind |-> "none", token |-> 0]
Garbled == [kind |-> "garbled", token |-> 0]
TokenHeader(t) == [kind |-> "token", token |-> t]

(* AuthManager::get_token_data and TokenData::has_permissions: the token   *)
(* table maps a token to its flags.                                        *)
KnownToken(toks, t) == t \in DOMAIN toks
HasPermissions(flags, required) == required \in flags

(* check_permissions: "pass" is Ok(req); the others are the status of the  *)
(* error it returns instead of calling the handler.                        *)
CheckPermissions(enabled, toks, header, path) ==
    IF ~enabled THEN "pass"
    ELSE IF header.kind = "none" THEN "401"
    ELSE IF header.kind = "garbled" THEN "400"
    ELSE IF ~KnownToken(toks, header.token) THEN "401"
    ELSE IF RequiredPermission(path) = "404" THEN "404"
    ELSE IF ~HasPermissions(toks[header.token], RequiredPermission(path)) THEN "401"
    ELSE "pass"

NoTokens == [t \in {} |-> {}]

(* What a check leaves behind: the request and the outcome. *)
Checked(header, path, outcome) ==
    [header |-> header, path |-> path, outcome |-> outcome]

NoCheck == Checked(NoHeader, << >>, "none")

(* The headers of the requests checked on a table whose one token is 1. *)
Headers == {NoHeader, Garbled, TokenHeader(1), TokenHeader(2)}

(* check_permissions applied once, to any request, on a fixed token table. *)
ApplyCheck ==
    /\ lastCheck = NoCheck
    /\ \E header \in Headers, path \in Paths :
          lastCheck' = Checked(header, path,
                               CheckPermissions(authEnabled, tokens, header, path))
    /\ UNCHANGED <<nonAuth, authEnabled, tokens, stored, handler, resp, issued, revoked>>

(* ---- the token handlers ---- *)

(* The tokens: 0 is the super user key, the others are created. *)
TokenIds == 0..MaxIssued

(* The flags create_token and edit_token are called with. *)
PayloadPerms == {{"SEARCH_INDEX"}}

(* The paths of the requests that carry a revoked token. *)
LivePaths == {<<"/", "auth">>, <<"/", "indexes", "/", "x", "/", "search">>}

(* The token handlers that run at the same time: a handler is an async fn, *)
(* and while one waits at commit(..).await others run. `handler` is the    *)
(* bag of those begun and not ended, each with its name and how far it is. *)
NoResp == [op |-> "none", status |-> "none"]

(* AuthManager: the token table after each mutation. *)
WithToken(toks, t, flags) ==
    [x \in DOMAIN toks \cup {t} |-> IF x = t THEN flags ELSE toks[x]]

WithoutToken(toks, t) == [x \in DOMAIN toks \ {t} |-> toks[x]]

(* A handler that answers without calling commit. *)
StageSkipsCommit == "persisted"

(* Where a handler is after its call on the AuthManager: before             *)
(* state.auth.commit(storage).await?.                                      *)
StageAfterMutation == "mutated"

(* AuthApi::create_token, up to state.auth.create_token: a new token. *)
CreateToken(flags) ==
    /\ BagCardinality(handler) < MaxHandlers
    /\ \E t \in TokenIds \ issued :
          /\ \A u \in TokenIds \ issued : t <= u
          /\ tokens' = WithToken(tokens, t, flags)
          /\ issued' = issued \cup {t}
    /\ handler' = handler (+) SetToBag({[op |-> "create_token", stage |-> StageAfterMutation]})
    /\ UNCHANGED <<nonAuth, authEnabled, stored, resp, lastCheck, revoked>>

(* AuthApi::revoke_token, up to state.auth.revoke_token. *)
RevokeToken(t) ==
    /\ BagCardinality(handler) < MaxHandlers
    /\ tokens' = WithoutToken(tokens, t)
    /\ revoked' = IF t \in issued THEN revoked \cup {t} ELSE revoked
    /\ handler' = handler (+) SetToBag({[op |-> "revoke_token", stage |-> StageAfterMutation]})
    /\ UNCHANGED <<nonAuth, authEnabled, stored, resp, lastCheck, issued>>

(* revoke_all_tokens, up to state.auth.revoke_all_tokens. *)
RevokeAllTokens ==
    /\ BagCardinality(handler) < MaxHandlers
    /\ tokens' = NoTokens
    /\ revoked' = issued
    /\ handler' = handler (+) SetToBag({[op |-> "revoke_all_tokens", stage |-> StageAfterMutation]})
    /\ UNCHANGED <<nonAuth, authEnabled, stored, resp, lastCheck, issued>>

(* edit_token, up to state.auth.update_token: None is answered with 400    *)
(* at once, without a commit.                                              *)
EditToken(t, flags) ==
    /\ BagCardinality(handler) < MaxHandlers
    /\ IF KnownToken(tokens, t)
       THEN /\ tokens' = WithToken(tokens, t, flags)
            /\ handler' = handler (+) SetToBag({[op |-> "edit_token", stage |-> StageAfterMutation]})
            /\ resp' = resp
       ELSE /\ resp' = [op |-> "edit_token", status |-> "400"]
            /\ UNCHANGED <<tokens, handler>>
    /\ UNCHANGED <<nonAuth, authEnabled, stored, lastCheck, issued, revoked>>

(* state.auth.commit(storage).await of handler h: the token table, as it   *)
(* is when the write is done, is written to the storage, or the write      *)
(* fails.                                                                  *)
Commit(h, ok) ==
    /\ BagIn(h, handler)
    /\ h.stage = "mutated"
    /\ stored' = IF ok THEN tokens ELSE stored
    /\ handler' = (handler (-) SetToBag({h}))
                      (+) SetToBag({[h EXCEPT !.stage = IF ok THEN "persisted" ELSE "failed"]})
    /\ UNCHANGED <<nonAuth, authEnabled, tokens, resp, lastCheck, issued, revoked>>

(* The end of a handler: `?` returns the error of commit; create_token     *)
(* runs todo!() where its response should be; the others answer 200.       *)
ResponseStatus(h) ==
    IF h.stage = "failed" THEN "500"
    ELSE IF h.op = "create_token" THEN "panic"
    ELSE "200"

Respond(h) ==
    /\ BagIn(h, handler)
    /\ h.stage \in {"persisted", "failed"}
    /\ resp' = [op |-> h.op, status |-> ResponseStatus(h)]
    /\ handler' = handler (-) SetToBag({h})
    /\ UNCHANGED <<nonAuth, authEnabled, tokens, stored, lastCheck, issued, revoked>>

(* check_permissions, as things are, on a request for `path` that carries *)
(* token t: it reads the token table and changes nothing.                  *)
Answer(t, path) == CheckPermissions(authEnabled, tokens, TokenHeader(t), path)

(* AuthManager::new(enabled, key): with a super user key the auth is       *)
(* enabled and the key is a token with every flag.                         *)
AuthManagerNew(enabled) ==
    /\ authEnabled = enabled
    /\ tokens = IF enabled THEN WithToken(NoTokens, 0, Permissions) ELSE NoTokens
    /\ issued = IF enabled THEN {0} ELSE {}

AuthRest ==
    /\ stored = NoTokens
    /\ handler = EmptyBag
    /\ resp = NoResp
    /\ lastCheck = NoCheck
    /\ revoked = {}

(* A server without a super user key, and no request yet. *)
AuthStart ==
    /\ AuthManagerNew(FALSE)
    /\ AuthRest

(* ---------------------------- local storage ---------------------------- *)

(* The schemas an IndexContext is made with. *)
Schemas == {"s1", "s2"}

(* Schema::as_tantivy_schema: the schema of the tantivy index built from a *)
(* declared schema.                                                        *)
AsTantivySchema(schema) == [built_from |-> schema]

(* A data directory without an index: tantivy::Index::exists is false. *)
NoIndex == [built_from |-> "none"]

(* Schema::validate_with_tantivy_schema: Ok when the index has the schema  *)
(* the context declares.                                                   *)
ValidateWithTantivySchema(schema, ref_schema) ==
    ref_schema = AsTantivySchema(schema)

(* Nothing under {base_path}/{id}. *)
EmptyDisk ==
    [root |-> FALSE, data |-> FALSE, index |-> NoIndex,
     meta |-> FALSE, db |-> FALSE]

(* An open that replaces the index on disk by one of the declared schema. *)
IndexOpenedAnew(d, schema) == AsTantivySchema(schema)

(* The index get_or_create_index opens: the one on disk when there is one, *)
(* a new one of the declared schema otherwise.                             *)
IndexOpened(d, schema) ==
    IF d.index # NoIndex THEN d.index ELSE AsTantivySchema(schema)

(* sled::Config::open: with create_new the database must not exist yet. *)
SledOpen(create_new, db) == ~(create_new /\ db)

(* No call made on the context by the running process yet. *)
NoOpen ==
    [op |-> "none", before |-> EmptyDisk, schema |-> "none",
     first |-> FALSE, ok |-> FALSE]

(* IndexContext::get_or_create_index *)
GetOrCreateIndex ==
    LET index == IndexOpened(disk, declared)
        ok == ValidateWithTantivySchema(declared, index)
    IN  /\ disk' = [disk EXCEPT !.root = TRUE, !.data = TRUE, !.index = index]
        /\ held' = IF ok THEN held \cup {"index"} ELSE held
        /\ lastOpen' = [op |-> "index", before |-> disk, schema |-> declared,
                        first |-> "index" \notin held, ok |-> ok]
        /\ UNCHANGED <<declared, runs, nonStorage>>

(* IndexContext::get_or_create_metastore *)
GetOrCreateMetastore ==
    LET ok == SledOpen(TRUE, disk.db)
    IN  /\ disk' = [disk EXCEPT !.root = TRUE, !.meta = TRUE, !.db = TRUE]
        /\ held' = IF ok THEN held \cup {"metastore"} ELSE held
        /\ lastOpen' = [op |-> "metastore", before |-> disk,
                        schema |-> declared,
                        first |-> "metastore" \notin held, ok |-> ok]
        /\ UNCHANGED <<declared, runs, nonStorage>>

(* IndexContext::clear_local_data: remove_dir_all fails on a missing directory. *)
ClearLocalData ==
    /\ disk' = IF disk.root THEN EmptyDisk ELSE disk
    /\ lastOpen' = [op |-> "clear", before |-> disk, schema |-> declared,
                    first |-> FALSE, ok |-> disk.root]
    /\ UNCHANGED <<declared, held, runs, nonStorage>>

(* The process ends and another one starts on the same base_path, with a   *)
(* context of the same name made from `schema`.                            *)
Restart(schema) ==
    /\ runs < MaxRuns
    /\ runs' = runs + 1
    /\ declared' = schema
    /\ held' = {}
    /\ lastOpen' = NoOpen
    /\ UNCHANGED <<disk, nonStorage>>

(* A first process on an empty base_path. *)
StorageRest ==
    /\ disk = EmptyDisk
    /\ held = {}
    /\ runs = 1
    /\ lastOpen = NoOpen

StorageStart ==
    /\ declared = "s1"
    /\ StorageRest

(* --------------------------- the query layer --------------------------- *)

(* The names search_fields and boost_fields are declared with. *)
FieldNames == {"title", "count"}

(* format!("_{}", hash(&ref_field)): the name of the field that holds the  *)
(* pre-processed text of a field.                                          *)
PreProcessedField(name) == IF name = "title" THEN "_1" ELSE "_2"

(* The schemas of an index: each field missing, a text field or a number;  *)
(* a text field may have its pre-processed field, a text field too, beside *)
(* it.                                                                     *)
QuerySchemas ==
    { s \in [FieldNames \cup {PreProcessedField(n) : n \in FieldNames}
               -> {"none", "str", "u64"}] :
        \A n \in FieldNames :
            s[PreProcessedField(n)] # "none"
                => s[PreProcessedField(n)] = "str" /\ s[n] = "str" }

(* The lists of at most MaxSearchFields field names. *)
SearchFieldLists ==
    UNION { [1..n -> FieldNames] : n \in 0..MaxSearchFields }

(* struct QueryContext (and the fields of the same names of LoadedIndex);  *)
(* boost_fields holds the names that are given a boost.                    *)
QueryContexts ==
    [search_fields : SearchFieldLists,
     boost_fields : SUBSET FieldNames,
     set_conjunction_by_default : BOOLEAN,
     use_fast_fuzzy : BOOLEAN]

(* What the query layer is built from; enabled is correction::enabled(). *)
QueryArgs ==
    [ctx : QueryContexts, schema : QuerySchemas, enabled : BOOLEAN]

(* ctx.boost_fields.get(&ref_field), 0f32 without an entry. *)
Boost(ctx, name) == IF name \in ctx.boost_fields THEN "given" ELSE "0.0"

(* An add_field_if_valid that pushes fields of any type. *)
AddFieldAlways(pair, field_type) == <<pair>>

(* add_field_if_valid: only FieldType::Str fields are pushed. *)
AddFieldIfValid(pair, field_type) ==
    IF field_type = "str" THEN <<pair>> ELSE <<>>

(* One turn of the loop of QueryHandler::create: what the field adds to    *)
(* query_parser_search_fields and to fuzzy_query_search_fields.            *)
SearchField(ctx, schema, enabled, name) ==
    LET pre == PreProcessedField(name)
        boost == Boost(ctx, name)
    IN  IF schema[name] = "none"
        THEN [found |-> FALSE, parser |-> <<>>, fuzzy |-> <<>>]
        ELSE IF schema[pre] # "none"
        THEN IF ctx.use_fast_fuzzy /\ enabled
             THEN [found |-> TRUE, parser |-> << <<pre, boost>> >>,
                   fuzzy |-> AddFieldIfValid(<<pre, boost>>, schema[pre])]
             ELSE [found |-> TRUE, parser |-> << <<name, boost>> >>,
                   fuzzy |-> AddFieldIfValid(<<pre, boost>>, schema[name])]
        ELSE [found |-> TRUE, parser |-> << <<name, boost>> >>,
              fuzzy |-> AddFieldIfValid(<<name, boost>>, schema[name])]

(* The loop of create from the i-th search field on; it returns at the     *)
(* first field the schema lacks.                                           *)
RECURSIVE CreateLoop(_, _, _, _)
CreateLoop(ctx, schema, enabled, i) ==
    IF i > Len(ctx.search_fields)
    THEN [found |-> TRUE, parser |-> <<>>, fuzzy |-> <<>>]
    ELSE LET f == SearchField(ctx, schema, enabled, ctx.search_fields[i])
             rest == CreateLoop(ctx, schema, enabled, i + 1)
         IN  IF ~f.found \/ ~rest.found
             THEN [found |-> FALSE, parser |-> <<>>, fuzzy |-> <<>>]
             ELSE [found |-> TRUE, parser |-> f.parser \o rest.parser,
                   fuzzy |-> f.fuzzy \o rest.fuzzy]

(* create not called yet, and the Err it returns. *)
NotCreated ==
    [run |-> FALSE, ok |-> FALSE, conjunction |-> FALSE,
     parser |-> <<>>, fuzzy |-> <<>>]

CreateErr == [NotCreated EXCEPT !.run = TRUE]

(* QueryHandler::create: the parser's fields with their boosts, whether    *)
(* set_conjunction_by_default was called on it, and the fuzzy factory's    *)
(* fields.                                                                 *)
QueryHandlerCreate(ctx, schema, enabled) ==
    LET r == CreateLoop(ctx, schema, enabled, 1)
    IN  IF ~r.found THEN CreateErr
        ELSE [run |-> TRUE, ok |-> TRUE, conjunction |-> ctx.use_fast_fuzzy,
              parser |-> r.parser, fuzzy |-> r.fuzzy]

(* build_loaded not called yet, and the Err it returns. *)
NotBuilt == [run |-> FALSE, ok |-> FALSE, parser |-> <<>>, boosted |-> {}]

BuildErr == [NotBuilt EXCEPT !.run = TRUE]

(* A build_loaded that does not look its boost fields up. *)
BuildLoadedAnyBoost(ctx, schema) ==
    IF \E i \in 1..Len(ctx.search_fields) : schema[ctx.search_fields[i]] = "none"
    THEN BuildErr
    ELSE [run |-> TRUE, ok |-> TRUE, parser |-> ctx.search_fields,
          boosted |-> ctx.boost_fields]

(* IndexHandler::build_loaded, as far as the query parser: the fields of   *)
(* the parser and those it boosts.                                         *)
BuildLoaded(ctx, schema) ==
    IF \E i \in 1..Len(ctx.search_fields) : schema[ctx.search_fields[i]] = "none"
    THEN BuildErr
    ELSE IF \E name \in ctx.boost_fields : schema[name] = "none"
    THEN BuildErr
    ELSE [run |-> TRUE, ok |-> TRUE, parser |-> ctx.search_fields,
          boosted |-> ctx.boost_fields]

(* QueryHandler::create applied to the arguments. *)
ApplyCreate ==
    /\ qret = NotCreated
    /\ qret' = QueryHandlerCreate(qargs.ctx, qargs.schema, qargs.enabled)
    /\ UNCHANGED <<qargs, bret, nonQuery>>

(* IndexHandler::build_loaded applied to the same fields and schema. *)
ApplyBuildLoaded ==
    /\ bret = NotBuilt
    /\ bret' = BuildLoaded(qargs.ctx, qargs.schema)
    /\ UNCHANGED <<qargs, qret, nonQuery>>

(* Neither called. *)
QueryRest ==
    /\ qret = NotCreated
    /\ bret = NotBuilt

QueryStart ==
    /\ qargs = [ctx |-> [search_fields |-> <<>>, boost_fields |-> {},
                         set_conjunction_by_default |-> FALSE,
                         use_fast_fuzzy |-> FALSE],
                schema |-> [f \in FieldNames
                              \cup {PreProcessedField(n) : n \in FieldNames}
                              |-> "none"],
                enabled |-> FALSE]
    /\ QueryRest

(* --------------------------- the fuzzy query --------------------------- *)

(* The characters of a query string: a letter in both cases, a space and   *)
(* a tab.                                                                  *)
QueryChars == {"A", "a", " ", "\t"}

Whitespace == {" ", "\t"}

QueryStrings == UNION { [1..n -> QueryChars] : n \in 0..MaxQueryLen }

(* The type of each field of the schema the reader was loaded with. *)
FieldTypes == [FieldNames -> {"str", "u64"}]

FuzzyArgs ==
    [query : QueryStrings, search_fields : SearchFieldLists, types : FieldTypes]

(* str::to_lowercase, character by character. *)
ToLowercase(s) == [i \in 1..Len(s) |-> IF s[i] = "A" THEN "a" ELSE s[i]]

(* str::split on the characters of seps: the pieces between them, the      *)
(* empty ones included.                                                    *)
RECURSIVE SplitOn(_, _)
SplitOn(s, seps) ==
    IF s = << >> THEN << << >> >>
    ELSE LET rest == SplitOn(Tail(s), seps)
         IN  IF Head(s) \in seps
                 THEN << << >> >> \o rest
                 ELSE << <<Head(s)>> \o Head(rest) >> \o Tail(rest)

(* FuzzyTermQuery::new_prefix(term, 1, true) under Occur::Should. *)
FuzzyClause(field, term) ==
    [occur |-> "Should", field |-> field, term |-> term,
     distance |-> 1, transposition_cost_one |-> TRUE, prefix |-> TRUE]

(* The inner loop: one clause for every search field of the reader. *)
RECURSIVE TermClauses(_, _)
TermClauses(fields, term) ==
    IF fields = << >> THEN << >>
    ELSE <<FuzzyClause(Head(fields), term)>> \o TermClauses(Tail(fields), term)

(* The outer loop: the terms in order, the empty ones skipped. *)
RECURSIVE QueryClauses(_, _)
QueryClauses(terms, fields) ==
    IF terms = << >> THEN << >>
    ELSE (IF Head(terms) = << >> THEN << >> ELSE TermClauses(fields, Head(terms)))
         \o QueryClauses(Tail(terms), fields)

ParseFuzzyQuery(query, search_fields) ==
    QueryClauses(SplitOn(ToLowercase(query), {" "}), search_fields)

NotParsed == [run |-> FALSE, clauses |-> << >>]

ApplyParseFuzzy ==
    /\ ~zret.run
    /\ zret' = [run |-> TRUE,
                clauses |-> ParseFuzzyQuery(zargs.query, zargs.search_fields)]
    /\ UNCHANGED <<zargs, nonFuzzy>>

FuzzyRest == zret = NotParsed

FuzzyStart ==
    /\ zargs = [query |-> << >>, search_fields |-> << >>,
                types |-> [f \in FieldNames |-> "str"]]
    /\ FuzzyRest

(* ------------------------- the index's identity ------------------------ *)

PollingModes == {"p1", "p2"}
StorageConfigs == {"None", "cfg"}
NodeIds == {"n1", "n2"}
BasePaths == {<<"base">>, <<"var", "lnx">>}

(* crc32fast::hash of the bytes of a name, widened to u64: the value as    *)
(* its two 16-bit halves, the high one first (0xE8B7BE43 and 0x71BEEFF9).  *)
Crc32(name) == IF name = "a" THEN <<59575, 48707>> ELSE <<29118, 61433>>

(* u64::to_string: the decimal digits, most significant first, by long     *)
(* division of the two halves by ten.                                      *)
RECURSIVE Digits(_)
Digits(n) ==
    LET low == (n[1] % 10) * 65536 + n[2]
        quotient == <<n[1] \div 10, low \div 10>>
    IN  IF quotient = <<0, 0>> THEN <<low % 10>>
        ELSE Append(Digits(quotient), low % 10)

IndexContextNew(name, schema, polling_mode, storage_config, node_id) ==
    [name |-> name,
     keyspace |-> [prefix |-> "INDEX_KEYSPACE_PREFIX", index |-> Digits(Crc32(name))],
     schema |-> schema,
     polling_mode |-> polling_mode,
     storage_config |-> storage_config,
     node_id |-> node_id]

IdPerNode(ctx) ==
    <<Crc32(ctx.name)[1], (Crc32(ctx.name)[2] + (IF ctx.node_id = "n1" THEN 1 ELSE 2)) % 65536>>

Id(ctx) == Crc32(ctx.name)

RootStoragePath(ctx, base_path) == Append(base_path, Digits(Id(ctx)))

(* IndexContext::new called once more; Uuid::new_v4 may give any node id. *)
NewContext(name, schema, polling_mode, storage_config, node_id) ==
    /\ Len(ctxs) < MaxContexts
    /\ ctxs' = Append(ctxs,
                      IndexContextNew(name, schema, polling_mode, storage_config, node_id))
    /\ UNCHANGED nonIdentity

(* IndexContext::set_node_id on the i-th context. *)
SetNodeId(i, node_id) ==
    /\ i \in 1..Len(ctxs)
    /\ ctxs' = [ctxs EXCEPT ![i].node_id = node_id]
    /\ UNCHANGED nonIdentity

(* The derived Serialize: every field but node_id, which is skipped. *)
Serialize(ctx) ==
    [name |-> ctx.name, schema |-> ctx.schema, polling_mode |-> ctx.polling_mode,
     storage_config |-> ctx.storage_config, keyspace |-> ctx.keyspace]

(* The derived Deserialize: the fields as the data has them, the keyspace  *)
(* among them, and node_id from its default, Uuid::new_v4.                 *)
Deserialize(data, node_id) ==
    [name |-> data.name,
     keyspace |-> data.keyspace,
     schema |-> data.schema,
     polling_mode |-> data.polling_mode,
     storage_config |-> data.storage_config,
     node_id |-> node_id]

(* A context is read back from what the i-th context was written as. *)
ReadBack(i, node_id) ==
    /\ Len(ctxs) < MaxContexts
    /\ i \in 1..Len(ctxs)
    /\ ctxs' = Append(ctxs, Deserialize(Serialize(ctxs[i]), node_id))
    /\ UNCHANGED nonIdentity

IdentityStart == ctxs = << >>

(* ---------------------------- specifications --------------------------- *)

(* fn search applied to its arguments. *)
SearchInit ==
    /\ EngineIdle
    /\ RegistryStart
    /\ AuthStart
    /\ sargs \in SearchArgs
    /\ sret = NotRun
    /\ StorageStart
    /\ QueryStart
    /\ FuzzyStart
    /\ IdentityStart

SearchNext == \E ok \in BOOLEAN : ApplySearch(ok)

SearchSpec == SearchInit /\ [][SearchNext]_vars

(* Calls of get_or_create_index, new, get, remove and destroy, in any      *)
(* order; a call of new is suspended at the set-up of its document store.  *)
RegistryInit ==
    /\ EngineIdle
    /\ SearchStart
    /\ RegistryStart
    /\ AuthStart
    /\ StorageStart
    /\ QueryStart
    /\ FuzzyStart
    /\ IdentityStart

RegistryNext ==
    \/ \E name \in IndexNames : MakeIndex(name)
    \/ \E name \in IndexNames : NewBegin(name)
    \/ \E store \in pending, setupOk \in BOOLEAN : NewEnd(store, setupOk)
    \/ \E name \in IndexNames : StartIndexer(name)
    \/ \E name \in IndexNames : Get(name)
    \/ \E name \in IndexNames : Remove(name)
    \/ \E store \in Handles : Destroy(store)

RegistrySpec == RegistryInit /\ [][RegistryNext]_vars

(* check_permissions applied to one request, on a table with one token. *)
PermissionInit ==
    /\ EngineIdle
    /\ SearchStart
    /\ RegistryStart
    /\ authEnabled \in BOOLEAN
    /\ tokens \in { WithToken(NoTokens, 1, flags) :
                      flags \in IF authEnabled THEN PermSets ELSE {{}} }
    /\ issued = {1}
    /\ AuthRest
    /\ StorageStart
    /\ QueryStart
    /\ FuzzyStart
    /\ IdentityStart

PermissionNext == ApplyCheck

PermissionSpec == PermissionInit /\ [][PermissionNext]_vars

(* The token handlers and the middleware, with or without a super user key. *)
AuthInit ==
    /\ EngineIdle
    /\ SearchStart
    /\ RegistryStart
    /\ \E enabled \in BOOLEAN : AuthManagerNew(enabled)
    /\ AuthRest
    /\ StorageStart
    /\ QueryStart
    /\ FuzzyStart
    /\ IdentityStart

AuthNext ==
    \/ \E flags \in PayloadPerms : CreateToken(flags)
    \/ \E t \in TokenIds : RevokeToken(t)
    \/ RevokeAllTokens
    \/ \E t \in TokenIds, flags \in PayloadPerms : EditToken(t, flags)
    \/ \E h \in BagToSet(handler), ok \in BOOLEAN : Commit(h, ok)
    \/ \E h \in BagToSet(handler) : Respond(h)

AuthSpec == AuthInit /\ [][AuthNext]_vars

(* The calls on an IndexContext across process restarts. *)
StorageInit ==
    /\ EngineIdle
    /\ SearchStart
    /\ RegistryStart
    /\ AuthStart
    /\ QueryStart
    /\ declared \in Schemas
    /\ StorageRest
    /\ FuzzyStart
    /\ IdentityStart

StorageNext ==
    \/ GetOrCreateIndex
    \/ GetOrCreateMetastore
    \/ ClearLocalData
    \/ \E schema \in Schemas : Restart(schema)

StorageSpec == StorageInit /\ [][StorageNext]_vars

(* QueryHandler::create and build_loaded applied to a context and a schema. *)
QueryInit ==
    /\ EngineIdle
    /\ SearchStart
    /\ RegistryStart
    /\ AuthStart
    /\ StorageStart
    /\ qargs \in QueryArgs
    /\ QueryRest
    /\ FuzzyStart
    /\ IdentityStart

QueryNext ==
    \/ ApplyCreate
    \/ ApplyBuildLoaded

QuerySpec == QueryInit /\ [][QueryNext]_vars

(* parse_fuzzy_query applied to a query and the search fields of a reader. *)
FuzzyInit ==
    /\ EngineIdle
    /\ SearchStart
    /\ RegistryStart
    /\ AuthStart
    /\ StorageStart
    /\ QueryStart
    /\ IdentityStart
    /\ zargs \in FuzzyArgs
    /\ FuzzyRest

FuzzyNext == ApplyParseFuzzy

FuzzySpec == FuzzyInit /\ [][FuzzyNext]_vars

(* IndexContext::new called with any arguments, one call after another. *)
IdentityInit ==
    /\ EngineIdle
    /\ SearchStart
    /\ RegistryStart
    /\ AuthStart
    /\ StorageStart
    /\ QueryStart
    /\ FuzzyStart
    /\ IdentityStart

IdentityNext ==
    \/ \E name \in IndexNames, schema \in Schemas, polling_mode \in PollingModes,
          storage_config \in StorageConfigs, node_id \in NodeIds :
           NewContext(name, schema, polling_mode, storage_config, node_id)
    \/ \E i \in 1..MaxContexts, node_id \in NodeIds : SetNodeId(i, node_id)
    \/ \E i \in 1..MaxContexts, node_id \in NodeIds : ReadBack(i, node_id)

IdentitySpec == IdentityInit /\ [][IdentityNext]_vars

(* ------------------------------ the engine ----------------------------- *)

Init ==
    /\ scenario \in Scenarios
    /\ maxc \in Concurrencies(scenario)
    /\ EngineStart
    /\ SearchStart
    /\ RegistryStart
    /\ AuthStart
    /\ StorageStart
    /\ QueryStart
    /\ FuzzyStart
    /\ IdentityStart

Next ==
    \/ \E p \in Producers : TrySend(p)
    \/ \E p \in Producers : Register(p)
    \/ \E p \in Producers : Resume(p)
    \/ \E p \in Producers : DropSend(p)
    \/ DropHandler
    \/ \E ok \in BOOLEAN : Recv(ok)
    \/ RecvEmpty
    \/ PopWaiter
    \/ NoWaiter
    \/ Reload
    \/ \E s \in Searchers, pl \in PayloadsOf(scenario) : Call(s, pl)
    \/ \E s \in Searchers : Acquire(s)
    \/ \E s \in Searchers : Dispatch(s)
    \/ \E s \in Searchers, ok \in BOOLEAN : PoolRun(s, ok)
    \/ \E s \in Searchers : Finish(s)
    \/ \E s \in Searchers : DropSearch(s)

Spec == Init /\ [][Next]_vars

(* The writer under load with its threads scheduled: one producer sends    *)
(* more operations than the queue holds to a worker that is never shut     *)
(* down. The worker is a thread of its own that polls in a loop, and the   *)
(* producer is a task the runtime polls whenever it can go on, so neither  *)
(* stays for ever before a step it can take.                               *)
LiveInit ==
    /\ scenario = "pressure"
    /\ maxc \in Concurrencies(scenario)
    /\ EngineStart
    /\ SearchStart
    /\ RegistryStart
    /\ AuthStart
    /\ StorageStart
    /\ QueryStart
    /\ FuzzyStart
    /\ IdentityStart

LiveNext ==
    \/ \E p \in Producers : TrySend(p)
    \/ \E p \in Producers : Register(p)
    \/ \E p \in Producers : Resume(p)
    \/ DropHandler
    \/ \E ok \in BOOLEAN : Recv(ok)
    \/ RecvEmpty
    \/ PopWaiter
    \/ NoWaiter
    \/ Reload

LiveSpec ==
    /\ LiveInit
    /\ [][LiveNext]_vars
    /\ WF_vars((\E ok \in BOOLEAN : Recv(ok)) \/ RecvEmpty \/ PopWaiter \/ NoWaiter)
    /\ \A p \in Producers : WF_vars(TrySend(p) \/ Register(p) \/ Resume(p))

(* ---------------------------------------------------------------------- *)
(* Properties                                                             *)
(* ---------------------------------------------------------------------- *)

(* C1: the worker applies the operations in exactly the order in which    *)
(* their send_op calls completed: what handle_msg has handled is, at      *)
(* every moment, an initial part of what try_send accepted, operation for *)
(* operation, also for operations first refused by a full queue.          *)
C1_AppliedInAcceptedOrder ==
    /\ Len(applied) <= Len(accepted)
    /\ \A i \in 1..Len(applied) : applied[i].op = accepted[i]

(* The worker has applied an operation of one producer and, after it, an  *)
(* operation of the other producer that was refused and sent again after  *)
(* a wake-up.                                                             *)
C1_Witness ==
    \E i, j \in 1..Len(applied) :
        /\ i < j
        /\ applied[j].op.id \in retried
        /\ applied[i].op.id[1] # applied[j].op.id[1]

(* C2: the queue never holds more than 20 operations; a try_send made     *)
(* while 20 are queued adds nothing and completes no call, the producer   *)
(* goes on to register a waiter, and it leaves the wait only once its     *)
(* one-shot was sent to.                                                  *)
C2_QueueBounded ==
    /\ [](Len(queue) <= Capacity)
    /\ [][ \A p \in Producers :
             /\ (Len(queue) = Capacity /\ ~Disconnected)
                    => /\ queue' = queue \/ queue' = Tail(queue)
                       /\ pidx' = pidx
                       /\ (ppc[p] \in {"ready", "retry"} /\ ppc'[p] # ppc[p])
                              => ppc'[p] = "full"
             /\ (ppc[p] = "full" /\ ppc'[p] # "full")
                    => ppc'[p] = "await" /\ waiters' = Append(waiters, p)
             /\ (ppc[p] = "await" /\ ppc'[p] \notin {"await", "dropped"})
                    => p \in signalled /\ ppc'[p] = "retry" ]_vars

(* A producer is suspended on its waiter while the queue holds 20. *)
C2_Witness ==
    \E p \in Producers :
        ppc[p] = "await" /\ Len(queue) = Capacity /\ p \notin signalled

(* ---- what a history of handled operations has published ---------------- *)

(* The operation at position k of history h closed a batch: a Commit or a  *)
(* Rollback that succeeded.                                                *)
ClosesBatch(h, k) == h[k].ok /\ h[k].op.kind \in {"Commit", "Rollback"}

(* The operation at position i of h was published: the first operation    *)
(* after it that closed a batch is a Commit.                               *)
Published(h, i) ==
    \E j \in (i + 1)..Len(h) :
        /\ h[j].op.kind = "Commit" /\ h[j].ok
        /\ \A k \in (i + 1)..(j - 1) : ~ClosesBatch(h, k)

(* The operation at position d of h deletes the document e. *)
Deletes(h, d, e) ==
    \/ h[d].op.kind = "DeleteTerm" /\ h[d].op.key = e.key
    \/ h[d].op.kind = "DeleteAll" /\ h[d].ok

(* The documents readers are to see after history h: those whose addition  *)
(* was published and that no published deletion after it removed.          *)
PublishedDocs(h) ==
    { Entry(h[i].op) :
        i \in { i \in 1..Len(h) :
                  /\ h[i].op.kind = "AddDocument"
                  /\ Published(h, i)
                  /\ ~\E d \in (i + 1)..Len(h) :
                         /\ Deletes(h, d, Entry(h[i].op))
                         /\ Published(h, d) } }

Prefix(h, n) == SubSeq(h, 1, n)

HasSearcher(s) == spc[s] \in {"running", "computed"}

(* C3, as stated: after commit() has returned, a search begun afterwards   *)
(* sees every addition enqueued before that commit (and that no later      *)
(* operation removes or rolls back, the commit not having failed).         *)
C3_AsStated ==
    \A s \in Searchers : HasSearcher(s) =>
        \A j \in 1..ghost[s].beganAcc :
            ( /\ accepted[j].kind = "Commit"
              /\ ~(j <= Len(applied) /\ ~applied[j].ok) )
            => \A i \in 1..(j - 1) :
                 ( /\ accepted[i].kind = "AddDocument"
                   /\ \A k \in 1..Len(accepted) :
                          accepted[k].kind \notin {"Rollback", "DeleteAll", "DeleteTerm"} )
                 => Entry(accepted[i]) \in snap[s]

(* C3, amended: commit() returns when the Commit is queued. A search that  *)
(* obtains its searcher sees exactly what the operations handled up to the *)
(* newest commit the reader has loaded have published, so once a Commit    *)
(* was applied and loaded every later searcher shows the additions before  *)
(* it; the loaded commit never goes back; and a searcher, once obtained,   *)
(* shows no addition enqueued later.                                       *)
C3_CommitBarrier ==
    /\ [][ \A s \in Searchers :
             (spc[s] = "held" /\ spc'[s] = "running")
                => /\ snap'[s] = PublishedDocs(Prefix(applied, loadedGen))
                   /\ snap'[s] \subseteq { Entry(accepted[i]) : i \in 1..Len(accepted) } ]_vars
    /\ [][ loadedGen' >= loadedGen ]_vars
    /\ [][ \A s \in Searchers :
             (HasSearcher(s) /\ HasSearcher(s)') => snap'[s] = snap[s] ]_vars
    /\ [](loadedGen = 0 \/ (applied[loadedGen].op.kind = "Commit" /\ applied[loadedGen].ok))

(* A search holds a searcher that shows a committed document while a       *)
(* document enqueued later is not in it.                                   *)
C3_Witness ==
    \E s \in Searchers :
        /\ HasSearcher(s)
        /\ snap[s] # {}
        /\ \E i \in 1..Len(accepted) :
              accepted[i].kind = "AddDocument" /\ Entry(accepted[i]) \notin snap[s]

(* The documents of the hits of a result. *)
HitDocs(r) == { r.hits[i].doc : i \in 1..Len(r.hits) }

(* C4: the result a search computes is the documents of exactly one        *)
(* committed state, the one the reader had loaded when the search obtained *)
(* its searcher, whatever was committed and loaded while it ran.           *)
C4_OneSnapshot ==
    \A s \in Searchers :
        /\ HasSearcher(s) =>
              snap[s] = PublishedDocs(Prefix(applied, ghost[s].snapGen))
        /\ (spc[s] = "computed" /\ res[s].ok) =>
              /\ HitDocs(res[s]) = PublishedDocs(Prefix(applied, ghost[s].snapGen))
              /\ res[s].count = Cardinality(HitDocs(res[s]))

(* Two searches are in flight on different committed states, one of them   *)
(* computed on the state before a commit the reader has since loaded.      *)
C4_Witness ==
    \E s1, s2 \in Searchers :
        /\ s1 # s2
        /\ spc[s1] = "computed" /\ res[s1].ok
        /\ HasSearcher(s2)
        /\ snap[s1] # snap[s2]
        /\ loaded # HitDocs(res[s1])

(* C5: what readers see changes only by a Commit: the committed documents  *)
(* and the loaded ones are what the handled operations have published,     *)
(* every visible document was added before a successful Commit, and no     *)
(* document whose batch a Rollback closed is ever visible.                 *)
C5_CommitAndRollback ==
    /\ committed = PublishedDocs(applied)
    /\ loaded = PublishedDocs(Prefix(applied, loadedGen))
    /\ \A i \in 1..Len(applied) :
          ( /\ applied[i].op.kind = "AddDocument"
            /\ \E r \in (i + 1)..Len(applied) :
                  /\ applied[r].op.kind = "Rollback" /\ applied[r].ok
                  /\ \A k \in (i + 1)..(r - 1) : ~ClosesBatch(applied, k) )
          => Entry(applied[i].op) \notin (committed \cup loaded)
    /\ \A e \in committed \cup loaded :
          \E i, j \in 1..Len(applied) :
              /\ i < j
              /\ applied[i].op.kind = "AddDocument" /\ Entry(applied[i].op) = e
              /\ applied[j].op.kind = "Commit" /\ applied[j].ok

(* After an addition, a Rollback, a second addition and a Commit, all      *)
(* successful, readers see the second document only.                       *)
C5_Witness ==
    /\ Len(applied) = 4
    /\ applied[2].op.kind = "Rollback" /\ applied[2].ok
    /\ applied[4].op.kind = "Commit" /\ applied[4].ok
    /\ loaded = {Entry(applied[3].op)}
    /\ working = loaded

InProgress(s) == spc[s] \in {"held", "running", "computed"}

(* C6: never more than max_concurrency searches hold a permit, and a       *)
(* search that finds no permit free stays suspended.                       *)
C6_ConcurrencyBound ==
    /\ [](Cardinality({s \in Searchers : InProgress(s)}) <= maxc)
    /\ [](permits >= 0)
    /\ [][ \A s \in Searchers :
             (spc[s] = "acquire" /\ permits = 0) => spc'[s] = "acquire" ]_vars

(* A search waits for a permit while max_concurrency searches hold theirs. *)
C6_Witness ==
    \E s \in Searchers :
        /\ spc[s] = "acquire"
        /\ permits = 0
        /\ Cardinality({x \in Searchers : InProgress(x)}) = maxc

(* C7: once the worker has exited no producer is left suspended on a       *)
(* waiter that nobody is going to wake.                                    *)
C7_NoProducerLeftWaiting ==
    ~( /\ wpc = "exited"
       /\ \E p \in Producers : ppc[p] = "await" /\ p \notin signalled )

(* C8: after the worker has exited every try_send is refused: nothing is   *)
(* queued, no call returns Ok, and the call fails.                         *)
C8_DeadWriterRefuses ==
    [][ wpc = "exited" =>
          /\ queue' = queue
          /\ accepted' = accepted
          /\ pidx' = pidx
          /\ \A p \in Producers :
                (ppc[p] \in {"ready", "retry"} /\ ppc'[p] # ppc[p])
                    => ppc'[p] = "failed" ]_vars

(* A send_op has failed on the exited worker. *)
C8_Witness ==
    /\ wpc = "exited"
    /\ \E p \in Producers : ppc[p] = "failed" /\ HasNext(p)

(* C9: a failed operation leaves the worker in its loop, with the rest of  *)
(* the queue still to handle and the writer's state as it was; and what    *)
(* was pending at a failed Commit is committed by the next Commit that     *)
(* succeeds.                                                               *)
C9_FailureTolerated ==
    /\ [][ ( /\ Len(applied') = Len(applied) + 1
             /\ ~applied'[Len(applied')].ok )
           => /\ wpc' = "process"
              /\ queue' = Tail(queue)
              /\ working' = working /\ committed' = committed ]_vars
    /\ [](LET n == Len(applied) IN
            (n > 0 /\ applied[n].op.kind = "Commit" /\ applied[n].ok) =>
               \A j \in 1..(n - 1) :
                  (applied[j].op.kind = "Commit" /\ ~applied[j].ok) =>
                     \A i \in 1..(j - 1) :
                        ( /\ applied[i].op.kind = "AddDocument"
                          /\ \A k \in (i + 1)..(n - 1) :
                                /\ ~ClosesBatch(applied, k)
                                /\ ~Deletes(applied, k, Entry(applied[i].op)) )
                        => Entry(applied[i].op) \in committed)

(* A Commit failed, and a later Commit published the document that was     *)
(* pending at the failure together with one added after it.                *)
C9_Witness ==
    /\ Len(applied) = 4
    /\ applied[1].op.kind = "AddDocument"
    /\ applied[2].op.kind = "Commit" /\ ~applied[2].ok
    /\ applied[4].op.kind = "Commit" /\ applied[4].ok
    /\ committed = {Entry(applied[1].op), Entry(applied[3].op)}

(* C10: a search whose payload is valid and whose backend search succeeded *)
(* returns to its caller the QueryResults the pool worker computed.        *)
C10_SearchReturnsResults ==
    \A s \in Searchers :
        (spc[s] = "done" /\ res[s].ok)
            => out[s] = [kind |-> "Ok", value |-> res[s]]

(* ---- query validation --------------------------------------------------- *)

(* The payloads the validation is said to refuse: Normal or Fuzzy without  *)
(* a query, MoreLikeThis without a reference document.                     *)
LacksRequired(pl) ==
    \/ pl.mode \in {"Normal", "Fuzzy"} /\ pl.query = "none"
    \/ pl.mode = "MoreLikeThis" /\ pl.ref = "none"

(* The payloads a query is built from: the reference document, if given,   *)
(* converts to an address; Normal has a query string the parser accepts,   *)
(* Fuzzy has a query string, MoreLikeThis has a reference document.        *)
BuildsQuery(pl) ==
    /\ pl.ref # "bad"
    /\ \/ pl.mode = "Normal" /\ pl.query = "ok"
       \/ pl.mode = "Fuzzy" /\ pl.query # "none"
       \/ pl.mode = "MoreLikeThis" /\ pl.ref = "ok"

(* C11, as stated: a search is refused exactly when its payload lacks the  *)
(* field its mode requires; every other payload builds a query and is      *)
(* dispatched to the pool.                                                 *)
C11_AsStated ==
    [][ \A s \in Searchers :
          (spc[s] = "held" /\ spc'[s] # "held")
             => (spc'[s] = "running" <=> ~LacksRequired(payload[s])) ]_vars

(* C11, amended: a payload that lacks the field its mode requires is       *)
(* refused; so is a Normal payload whose query string the parser refuses   *)
(* and any payload whose reference document does not convert to an         *)
(* address; every other payload builds a query. A refused search ends with *)
(* the error, gives its permit back, hands nothing to the pool and never   *)
(* runs there.                                                             *)
C11_Validation ==
    /\ [][ \A s \in Searchers :
             (spc[s] = "held" /\ spc'[s] # "held")
                => /\ LacksRequired(payload[s]) => spc'[s] # "running"
                   /\ spc'[s] = "running" <=> BuildsQuery(payload[s])
                   /\ spc'[s] # "running"
                        => /\ spc'[s] = "done"
                           /\ out'[s] = [kind |-> "Err", value |-> Err]
                           /\ permits' = permits + 1
                           /\ snap' = snap /\ job' = job /\ res' = res ]_vars
    /\ [][ \A s \in Searchers : spc[s] = "done" => spc'[s] = "done" ]_vars

(* A Normal search whose query string the parser refused has ended with an *)
(* error, nothing having run in the pool for it.                           *)
C11_Witness ==
    \E s \in Searchers :
        /\ spc[s] = "done"
        /\ ghost[s].refused.mode = "Normal"
        /\ ghost[s].refused.query = "bad"
        /\ out[s].kind = "Err"
        /\ res[s] = Err /\ snap[s] = {}

(* ---- ordering and pagination of fn search ------------------------------- *)

(* The match a hit of the call refers to. *)
MatchAt(a) == CHOOSE m \in sargs.docs : m.addr = a

(* The value the hits of the call are to be sorted by, descending. *)
SortValue(h) ==
    IF sargs.order_by = "fast" THEN MatchAt(h.ref_address).fast
    ELSE MatchAt(h.ref_address).score

(* C12: with a limit of at least one, the hits fn search returns are       *)
(* sorted descending by the fast field when order_by names one, and by     *)
(* score when order_by is absent or names no field of the schema.          *)
C12_Ordering ==
    (sret.ok /\ sargs.limit >= 1) =>
        \A i, j \in 1..Len(sret.hits) :
            i < j => SortValue(sret.hits[i]) >= SortValue(sret.hits[j])

(* The number of matches of the call the collector ranks before match m. *)
RankedBefore(m) ==
    Cardinality({ x \in sargs.docs :
                    \/ x.score > m.score
                    \/ x.score = m.score /\ x.addr < m.addr })

(* C13: whatever the limit, the offset and the matches, a search whose     *)
(* backend did not fail returns the matches ranked offset .. offset+limit-1*)
(* with count the number of hits returned, at most limit; past the last    *)
(* match it returns no hit and count 0, not an error.                      *)
C13_Pagination ==
    (sret # NotRun /\ sret.fault # "error") =>
        LET n == Cardinality(sargs.docs)
            rest == IF sargs.offset >= n THEN 0 ELSE n - sargs.offset
            size == IF sargs.limit < rest THEN sargs.limit ELSE rest
        IN  /\ sret.ok
            /\ Len(sret.hits) = size
            /\ sret.count = size
            /\ \A i \in 1..Len(sret.hits) :
                  RankedBefore(MatchAt(sret.hits[i].ref_address)) = sargs.offset + i - 1

(* ---- additions by primary key ------------------------------------------- *)

(* C20: readers never see two documents with the same primary key: an      *)
(* addition replaces the document that has its key.                        *)
C20_AddReplaces ==
    \A e1, e2 \in loaded : e1.key = e2.key => e1 = e2

(* ---- the registry ------------------------------------------------------- *)

(* The last call of a history. *)
LastCall(h) == h[Len(h)]

(* After history h the name is registered: a new of it succeeded and no    *)
(* remove of it came after.                                                *)
Present(h, name) ==
    \E i \in 1..Len(h) :
        /\ h[i].op = "new" /\ h[i].name = name /\ h[i].ret = "Ok"
        /\ \A j \in (i + 1)..Len(h) : ~(h[j].op = "remove" /\ h[j].name = name)

(* The store the newest successful new of the name built. *)
LatestStore(h, name) ==
    LET i == CHOOSE i \in 1..Len(h) :
                 /\ h[i].op = "new" /\ h[i].name = name /\ h[i].ret = "Ok"
                 /\ \A j \in (i + 1)..Len(h) :
                        ~(h[j].op = "new" /\ h[j].name = name /\ h[j].ret = "Ok")
    IN  h[i].store

(* C14: a new for a name the registry holds is refused, and the store      *)
(* registered under the name stays.                                        *)
C14_DuplicateRejected ==
    [][ ( /\ Len(calls') = Len(calls) + 1
          /\ LastCall(calls').op = "new"
          /\ cell /\ LastCall(calls').name \in DOMAIN indexes )
        => /\ LastCall(calls').ret = "Err"
           /\ indexes' = indexes ]_vars

(* C15: whatever calls were made, a name is in the registry exactly if a   *)
(* new of it succeeded and no remove of it followed; get and remove return *)
(* the registered store exactly then and None otherwise, so a second       *)
(* remove and every get after a remove return None, as do get and remove   *)
(* before any index was created; and get leaves the registry as it was.    *)
C15_LookupAndRemoval ==
    /\ [](\A name \in IndexNames :
            (cell /\ name \in DOMAIN indexes) <=> Present(calls, name))
    /\ [](\A i \in 1..Len(calls) :
            calls[i].op \in {"get", "remove"} =>
                LET before == Prefix(calls, i - 1) IN
                IF Present(before, calls[i].name)
                THEN /\ calls[i].ret = "Some"
                     /\ calls[i].store = LatestStore(before, calls[i].name)
                ELSE /\ calls[i].ret = "None"
                     /\ calls[i].store = NoStore)
    /\ [](~cell => \A i \in 1..Len(calls) :
                      calls[i].op \in {"get", "remove"} => calls[i].ret = "None")
    /\ [][ (Len(calls') = Len(calls) + 1 /\ LastCall(calls').op = "get")
              => cell' = cell /\ indexes' = indexes ]_vars

(* An index was created and removed with its store handed out, and a      *)
(* second remove found nothing.                                            *)
C15_Witness ==
    /\ Len(calls) = 3
    /\ calls[1].op = "new" /\ calls[1].ret = "Ok"
    /\ calls[2].op = "remove" /\ calls[2].name = calls[1].name
    /\ calls[2].ret = "Some" /\ calls[2].store = calls[1].store
    /\ calls[3].op = "remove" /\ calls[3].name = calls[1].name /\ calls[3].ret = "None"

(* C16: when destroy deletes the directory of an index, the writer and the *)
(* poller of that index have been stopped.                                 *)
C16_StoppedBeforeDelete ==
    \A i \in 1..Len(calls) :
        (calls[i].op = "destroy" /\ calls[i].ret = "Ok") => ~calls[i].running

(* ---- the permissions of a request --------------------------------------- *)

(* The text after "/indexes/" is a name and then "/" and the word. *)
NameThen(rest, word) ==
    /\ Len(rest) >= 3
    /\ rest[Len(rest) - 1] = "/" /\ rest[Len(rest)] = word
    /\ \A i \in 1..(Len(rest) - 2) : rest[i] # "/"

(* The permission the table gives a path, "404" for a path it rejects. *)
TableRequired(path) ==
    IF Len(path) >= 2 /\ path[1] = "/" /\ path[2] = "auth" THEN "MODIFY_AUTH"
    ELSE IF path = <<"/", "indexes">> THEN "MODIFY_ENGINE"
    ELSE IF Len(path) > 3 /\ SubSeq(path, 1, 3) = <<"/", "indexes", "/">>
         THEN LET rest == SubSeq(path, 4, Len(path)) IN
              IF NameThen(rest, "search") THEN "SEARCH_INDEX"
              ELSE IF NameThen(rest, "stopwords") THEN "MODIFY_STOP_WORDS"
              ELSE "MODIFY_DOCUMENTS"
    ELSE "404"

(* The check was made with auth enabled on a request carrying the known token. *)
CheckedKnownToken ==
    /\ lastCheck # NoCheck
    /\ authEnabled
    /\ lastCheck.header.kind = "token"
    /\ lastCheck.header.token \in DOMAIN tokens

(* C17: with auth enabled and a known token, a request is answered 404 if  *)
(* the table rejects its path, passes if the token has the permission the  *)
(* table gives the path, and is answered 401 otherwise.                    *)
C17_PathTable ==
    CheckedKnownToken =>
        LET required == TableRequired(lastCheck.path) IN
        lastCheck.outcome =
            IF required = "404" THEN "404"
            ELSE IF required \in tokens[lastCheck.header.token] THEN "pass"
            ELSE "401"

(* C18: with auth disabled every request passes; with auth enabled a       *)
(* request without Authorization header, with an unknown token, or with a  *)
(* token that lacks the permission its path requires is answered 401.      *)
C18_Outcomes ==
    lastCheck # NoCheck =>
        /\ ~authEnabled => lastCheck.outcome = "pass"
        /\ (authEnabled /\ lastCheck.header.kind = "none") => lastCheck.outcome = "401"
        /\ ( /\ authEnabled /\ lastCheck.header.kind = "token"
             /\ lastCheck.header.token \notin DOMAIN tokens )
              => lastCheck.outcome = "401"
        /\ ( /\ CheckedKnownToken
             /\ TableRequired(lastCheck.path) # "404"
             /\ TableRequired(lastCheck.path) \notin tokens[lastCheck.header.token] )
              => lastCheck.outcome = "401"

(* ---- the token handlers ------------------------------------------------- *)

(* The names of the handlers that change the token table. *)
HandlerOps == {"create_token", "revoke_token", "revoke_all_tokens", "edit_token"}

(* Every change of the token table is made by a handler that then waits at *)
(* commit; a handler moves on from there only by its commit, which writes  *)
(* the table or fails; and a handler ends only after its commit, answering *)
(* 200 only if the commit has written.                                     *)
PersistedBeforeResponse ==
    [][ /\ tokens' # tokens =>
              \E op \in HandlerOps : handler' = handler (+) SetToBag({[op |-> op, stage |-> "mutated"]})
        /\ handler' # handler =>
              \/ /\ \E op \in HandlerOps : handler' = handler (+) SetToBag({[op |-> op, stage |-> "mutated"]})
                 /\ resp' = resp /\ stored' = stored
              \/ \E h \in BagToSet(handler), stage \in {"persisted", "failed"} :
                    /\ h.stage = "mutated"
                    /\ handler' = (handler (-) SetToBag({h}))
                                      (+) SetToBag({[h EXCEPT !.stage = stage]})
                    /\ stage = "persisted" => stored' = tokens
                    /\ resp' = resp /\ tokens' = tokens
              \/ \E h \in BagToSet(handler) :
                    /\ h.stage \in {"persisted", "failed"}
                    /\ handler' = handler (-) SetToBag({h})
                    /\ resp'.op = h.op
                    /\ resp'.status = "200" => h.stage = "persisted"
        /\ (resp' # resp /\ resp'.status = "200") =>
              \E h \in BagToSet(handler) :
                  h.stage = "persisted" /\ handler' = handler (-) SetToBag({h}) ]_vars

(* C19, as stated: token mutations are persisted before the response, and  *)
(* a request carrying a revoked token is never let through.                *)
C19_AsStated ==
    /\ PersistedBeforeResponse
    /\ [](\A t \in revoked, path \in LivePaths : Answer(t, path) # "pass")

(* C19, amended: token mutations are persisted before the response, and    *)
(* with auth enabled a request carrying a revoked token is answered 401.   *)
C19_PersistAndRevoke ==
    /\ PersistedBeforeResponse
    /\ [](authEnabled => \A t \in revoked, path \in LivePaths : Answer(t, path) = "401")

(* With auth enabled, revoke_all_tokens has answered 200 after a commit    *)
(* that wrote the empty table, while another handler waits at its commit;  *)
(* a token that had been created is revoked, and a request carrying it is  *)
(* answered 401.                                                           *)
C19_Witness ==
    /\ authEnabled
    /\ resp = [op |-> "revoke_all_tokens", status |-> "200"]
    /\ \E h \in BagToSet(handler) : h.stage = "mutated"
    /\ Cardinality(issued) = 2 /\ revoked = issued
    /\ stored = NoTokens
    /\ \E t \in revoked \ {0} : \A path \in LivePaths : Answer(t, path) = "401"


(* The schema the index on disk had when the last call was made agrees     *)
(* with the schema the calling context declares (no index agrees with any).*)
AgreedAtOpen ==
    lastOpen.before.index \in {NoIndex, AsTantivySchema(lastOpen.schema)}

(* C21: the first open a process makes of the index or of the metastore    *)
(* succeeds, on an empty disk as well as on the directories an earlier     *)
(* process left (the index being of the declared schema).                  *)
C21_OpenRepeatable ==
    lastOpen.first =>
        /\ lastOpen.op = "metastore" => lastOpen.ok
        /\ lastOpen.op = "index" /\ AgreedAtOpen => lastOpen.ok

(* C22: get_or_create_index fails, and hands out no index, when the index  *)
(* on disk has another schema than the declared one; when it succeeds the  *)
(* index on disk, old or just created, has the declared schema.            *)
C22_SchemaChecked ==
    lastOpen.op = "index" =>
        /\ lastOpen.ok <=> AgreedAtOpen
        /\ ~lastOpen.ok => "index" \notin held
        /\ lastOpen.ok =>
              /\ "index" \in held
              /\ disk.index = AsTantivySchema(lastOpen.schema)

(* A later process has opened an index that an earlier process left with   *)
(* another schema, and the open has failed.                                *)
C22_Witness ==
    /\ lastOpen.op = "index"
    /\ ~lastOpen.ok
    /\ lastOpen.before.index # NoIndex
    /\ runs > 1


(* The fields the fuzzy factory got from create. *)
FuzzyTargets == { qret.fuzzy[j][1] : j \in 1..Len(qret.fuzzy) }

(* Every field declared in search_fields, resp. in boost_fields, has an    *)
(* entry in the schema.                                                    *)
SearchFieldsExist ==
    \A i \in 1..Len(qargs.ctx.search_fields) :
        qargs.schema[qargs.ctx.search_fields[i]] # "none"

BoostFieldsExist ==
    \A name \in qargs.ctx.boost_fields : qargs.schema[name] # "none"

(* C23: the parser create builds has AND as its default operator exactly   *)
(* when set_conjunction_by_default or use_fast_fuzzy is set in the         *)
(* context, and OR otherwise.                                              *)
C23_DefaultOperator ==
    qret.ok =>
        (qret.conjunction <=>
            (qargs.ctx.set_conjunction_by_default \/ qargs.ctx.use_fast_fuzzy))

(* Fast-fuzzy is in effect: set for the index, with the correction switched *)
(* on.                                                                     *)
FastFuzzy == qargs.ctx.use_fast_fuzzy /\ qargs.enabled

(* C24 as stated: for every declared search field, with fast-fuzzy in      *)
(* effect and its pre-processed field in the schema the parser and the     *)
(* fuzzy factory both target the pre-processed field; without a            *)
(* pre-processed field in the schema both target the field itself.         *)
C24_AsStated ==
    qret.ok =>
        \A i \in 1..Len(qargs.ctx.search_fields) :
            LET name == qargs.ctx.search_fields[i]
                pre == PreProcessedField(name)
            IN  /\ FastFuzzy /\ qargs.schema[pre] # "none"
                      => /\ qret.parser[i][1] = pre
                         /\ pre \in FuzzyTargets
                /\ qargs.schema[pre] = "none"
                      => /\ qret.parser[i][1] = name
                         /\ name \in FuzzyTargets

(* C24: as above, except that without a pre-processed field the fuzzy      *)
(* factory targets the field itself when it is a text field and does not   *)
(* target it otherwise; it never targets a field the schema lacks.         *)
C24_Targeting ==
    qret.ok =>
        \A i \in 1..Len(qargs.ctx.search_fields) :
            LET name == qargs.ctx.search_fields[i]
                pre == PreProcessedField(name)
            IN  /\ FastFuzzy /\ qargs.schema[pre] # "none"
                      => /\ qret.parser[i][1] = pre
                         /\ pre \in FuzzyTargets
                /\ qargs.schema[pre] = "none"
                      => /\ qret.parser[i][1] = name
                         /\ pre \notin FuzzyTargets
                         /\ name \in FuzzyTargets <=> qargs.schema[name] = "str"

(* With fast-fuzzy in effect create was given a text field that has its    *)
(* pre-processed field and a number field that has none: the parser        *)
(* targets the pre-processed field and the number field, the fuzzy factory *)
(* the pre-processed field only.                                           *)
C24_Witness ==
    /\ qret.ok
    /\ FastFuzzy
    /\ qargs.ctx.search_fields = <<"title", "count">>
    /\ qargs.schema["_1"] = "str"
    /\ qargs.schema["count"] = "u64"
    /\ qret.parser[1][1] = "_1"
    /\ qret.parser[2][1] = "count"
    /\ FuzzyTargets = {"_1"}

(* C25: create fails, without a handler, exactly when a declared search    *)
(* field has no entry in the schema; build_loaded fails exactly when a     *)
(* search field or a boost field has none.                                 *)
C25_UnknownField ==
    /\ qret.run =>
          /\ qret.ok <=> SearchFieldsExist
          /\ ~qret.ok => qret = CreateErr
          /\ qret.ok => Len(qret.parser) = Len(qargs.ctx.search_fields)
    /\ bret.run =>
          /\ bret.ok <=> SearchFieldsExist /\ BoostFieldsExist
          /\ ~bret.ok => bret = BuildErr
          /\ bret.ok => bret.parser = qargs.ctx.search_fields

(* Both were built from search fields the schema has and a boost field it  *)
(* lacks: create succeeded and build_loaded failed.                        *)
C25_Witness ==
    /\ qret.run /\ qret.ok
    /\ bret.run /\ ~bret.ok
    /\ qargs.ctx.search_fields # <<>>
    /\ ~BoostFieldsExist


(* ---- dropped futures, waves and the end of the worker ------------------ *)

(* C26: when a search future is dropped between the dispatch of its work   *)
(* and the completion signal, the permit goes back at the drop (the free   *)
(* permits are always those no search in progress holds, so a suspended    *)
(* search can take it), and the work stays with the pool, which runs the   *)
(* search on the searcher and the query it was dispatched with.            *)
C26_CancelledSearch ==
    /\ [][ \A s \in Searchers :
             (spc[s] = "running" /\ spc'[s] = "abandoned")
                => /\ permits' = permits + 1
                   /\ job'[s] = job[s]
                   /\ snap'[s] = snap[s] ]_vars
    /\ [][ \A s \in Searchers :
             spc[s] = "abandoned"
                => \/ /\ spc'[s] = "abandoned"
                      /\ job'[s] = job[s]
                      /\ snap'[s] = snap[s]
                   \/ /\ spc'[s] = "dropped"
                      /\ \E ok \in BOOLEAN :
                            res'[s] = Search(Matches(snap[s]), job[s], ok) ]_vars
    /\ [](\A s \in Searchers : spc[s] = "abandoned" => job[s] # NoJob)
    /\ [](permits = maxc - Cardinality({s \in Searchers : InProgress(s)}))

(* With one permit, a search was dropped before its work has run, and the  *)
(* search that was waiting for the permit holds it.                        *)
C26_Witness ==
    /\ maxc = 1
    /\ \E s1, s2 \in Searchers :
          /\ spc[s1] = "abandoned"
          /\ spc[s2] \in {"held", "running"}

(* C27: once a suspended send_op future was dropped, its operation is      *)
(* never accepted by the queue and its waiter is no longer in the queue of *)
(* waiters.                                                                *)
C27_CancelledEnqueue ==
    \A p \in Producers :
        ppc[p] = "dropped"
            => /\ \A i \in 1..Len(accepted) : accepted[i].id # NextOp(p).id
               /\ \A i \in 1..Len(waiters) : waiters[i] # p

(* The additions of the single producer that adds BurstDocs documents and  *)
(* then commits.                                                           *)
Burst == AddMany(1, BurstDocs)

(* C28: a single producer adds more documents than the queue holds and     *)
(* then commits: while the worker has handled nothing no more than 20 of   *)
(* its calls return; a suspended call has its waiter registered or woken;  *)
(* every accepted operation is handled or queued; the Commit is handled    *)
(* after all the additions, each of which succeeded, and once it succeeded *)
(* the committed documents, and the loaded ones after the reload, are all  *)
(* the documents added.                                                    *)
C28_NothingLost ==
    scenario = "pressure" =>
        /\ applied = << >> => pidx[1] <= Capacity
        /\ ppc[1] = "await"
              => \/ 1 \in signalled
                 \/ \E i \in 1..Len(waiters) : waiters[i] = 1
        /\ Len(accepted) = Len(applied) + Len(queue)
        /\ \A k \in 1..Len(applied) :
              /\ k <= BurstDocs => applied[k] = [op |-> Burst[k], ok |-> TRUE]
              /\ applied[k].op.kind = "Commit" => k = BurstDocs + 1
        /\ (Len(applied) = BurstDocs + 1 /\ applied[BurstDocs + 1].ok)
              => /\ committed = {Entry(Burst[i]) : i \in 1..BurstDocs}
                 /\ loadedGen = committedGen => loaded = committed

(* The producer was suspended on the full queue and went on after a        *)
(* wake-up, the Commit has succeeded and the reader has loaded it: all the *)
(* documents are visible.                                                  *)
C28_Witness ==
    /\ scenario = "pressure"
    /\ retried # {}
    /\ Len(applied) = BurstDocs + 1
    /\ applied[BurstDocs + 1].ok
    /\ Cardinality(loaded) = BurstDocs

(* The queue of waiters changes by a push at its back or by the worker     *)
(* taking its head while it wakes waiters, and the one-shot of the waiter  *)
(* taken is sent to.                                                       *)
WakesInOrder ==
    waiters' # waiters
        => \/ \E p \in Producers : waiters' = Append(waiters, p)
           \/ /\ waiters # << >>
              /\ waiters' = Tail(waiters)
              /\ wpc \in {"wake", "drain"}
              /\ wpc' = wpc
              /\ ppc[Head(waiters)] # "dropped" => Head(waiters) \in signalled'

(* The worker stops waking waiters only when none is registered. *)
WakesAll ==
    (wpc \in {"wake", "drain"} /\ wpc' # wpc) => waiters = << >>

(* C29: the worker turns from the messages to the waiters only when it     *)
(* leaves no message in the queue, and it then wakes every registered      *)
(* waiter in the order of registration.                                    *)
C29_WaveBatching ==
    [][ /\ WakesInOrder
        /\ WakesAll
        /\ (wpc = "process" /\ wpc' # "process") => queue' = << >> ]_vars

(* C30: the worker runs (handling messages and waking waiters in turn),    *)
(* then drains the waiters, then has exited; it leaves its loop when it    *)
(* has handled a Shutdown message and when it finds the channel empty with *)
(* its Sender dropped, and for no other reason; once exited it stays       *)
(* exited and handles nothing.                                             *)
C30_Termination ==
    /\ [][ wpc' # wpc
             => <<wpc, wpc'>> \in {<<"process", "wake">>, <<"wake", "process">>,
                                   <<"process", "drain">>, <<"drain", "exited">>} ]_vars
    /\ [][ (wpc = "process" /\ wpc' = "drain")
             => \/ applied'[Len(applied')].op.kind = "__Shutdown"
                \/ senders = "dropped" /\ queue = << >> ]_vars
    /\ [][ (wpc = "process" /\ queue = << >> /\ senders = "dropped" /\ wpc' # wpc)
             => wpc' = "drain" ]_vars
    /\ [][ wpc = "exited" => wpc' = "exited" /\ applied' = applied ]_vars

(* The search fields of a reader that hold text. *)
TextFields(fields, types) == SelectSeq(fields, LAMBDA f : types[f] = "str")

(* C31: the boolean query holds, for the tokens of the lowercased query    *)
(* between whitespace, the empty ones left out, and in their order, one    *)
(* prefix fuzzy clause of distance 1 and occurrence Should for each text   *)
(* search field and none for any other field; with no token it holds no    *)
(* clause.                                                                 *)
C31_FuzzyClauses ==
    zret.run
        => zret.clauses
             = QueryClauses(SplitOn(ToLowercase(zargs.query), Whitespace),
                            TextFields(zargs.search_fields, zargs.types))

(* C32: contexts built from one name have one id and one keyspace whatever *)
(* their schema, polling mode, storage config and node id; the keyspace is *)
(* the prefix followed by the id, and the root storage path is the base    *)
(* path extended by one component, the id.                                 *)
C32_IdentityOfName ==
    /\ \A i, j \in 1..Len(ctxs) :
          ctxs[i].name = ctxs[j].name
              => /\ Id(ctxs[i]) = Id(ctxs[j])
                 /\ ctxs[i].keyspace = ctxs[j].keyspace
    /\ \A i \in 1..Len(ctxs) :
          /\ ctxs[i].keyspace
               = [prefix |-> "INDEX_KEYSPACE_PREFIX", index |-> Digits(Id(ctxs[i]))]
          /\ \A base \in BasePaths :
                LET path == RootStoragePath(ctxs[i], base)
                IN  /\ Len(path) = Len(base) + 1
                    /\ SubSeq(path, 1, Len(base)) = base
                    /\ path[Len(path)] = ctxs[i].keyspace.index

(* Two contexts of one name that differ in everything else.                *)
C32_Witness ==
    /\ Len(ctxs) = 2
    /\ ctxs[1].name = ctxs[2].name
    /\ ctxs[1].schema # ctxs[2].schema
    /\ ctxs[1].polling_mode # ctxs[2].polling_mode
    /\ ctxs[1].storage_config # ctxs[2].storage_config
    /\ ctxs[1].node_id # ctxs[2].node_id

(* C33: clear_local_data leaves nothing of the index's directory, data and *)
(* meta together, and reports no error, whether or not there was a         *)
(* directory to remove.                                                    *)
C33_ClearLocalData ==
    lastOpen.op = "clear"
        => /\ disk = EmptyDisk
           /\ lastOpen.ok

(* C34: while the writer runs, a producer whose try_send found the queue   *)
(* full is woken some time after, whether it registers its waiter before   *)
(* or after the worker has emptied the queue and looked for waiters, and   *)
(* once woken its operation is accepted by the queue.                      *)
C34_NoLostWakeup ==
    \A p \in Producers :
        /\ (ppc[p] = "full") ~> (ppc[p] = "retry")
        /\ (ppc[p] = "retry") ~> (ppc[p] = "ready" /\ pidx[p] \in { id[2] : id \in retried })

(* The searches that have ended, and how: with the error of a refused     *)
(* payload, at the end of the function after the work was done, or by the  *)
(* drop of the future.                                                     *)
Ended(s) == spc[s] \in {"done", "dropped"}

(* C35: the free permits and the searches between the acquire and the      *)
(* return of their permit add up to max_concurrency; a search gives its    *)
(* permit back on whichever way it ends, so when no search holds or waits  *)
(* for a permit all max_concurrency permits are free.                      *)
C35_PermitConservation ==
    /\ permits + Cardinality({s \in Searchers : InProgress(s)}) = maxc
    /\ permits \in 0..maxc
    /\ (\A s \in Searchers : spc[s] = "idle" \/ Ended(s) \/ spc[s] = "abandoned")
           => permits = maxc

(* Two searches have ended, one by the drop of its future and one at the   *)
(* end of the function, and every permit is free.                          *)
C35_Witness ==
    /\ \E s1, s2 \in Searchers :
          /\ spc[s1] = "dropped"
          /\ spc[s2] = "done"
    /\ permits = maxc

(* The k-th operation the queue accepted went in before any Shutdown. *)
BeforeShutdown(k) == \A i \in 1..k : accepted[i].kind # "__Shutdown"

(* C36: an operation accepted before any Shutdown was queued has been      *)
(* handled once by the worker, at its place in the order of acceptance, or *)
(* is still in the queue of the running worker at that place; no           *)
(* operation is handled twice, whether or not it was first refused by a    *)
(* full queue.                                                             *)
C36_ExactlyOnce ==
    /\ \A i, j \in 1..Len(applied) :
          applied[i].op.id = applied[j].op.id => i = j
    /\ \A k \in 1..Len(accepted) :
          BeforeShutdown(k)
              => IF k <= Len(applied)
                 THEN applied[k].op = accepted[k]
                 ELSE /\ wpc \in {"process", "wake"}
                      /\ k - Len(applied) <= Len(queue)
                      /\ queue[k - Len(applied)] = accepted[k]

(* An operation that was refused by the full queue and accepted after a    *)
(* wake-up has been handled, with no Shutdown before it.                   *)
C36_Witness ==
    \E k \in 1..Len(applied) :
        /\ applied[k].op.id \in retried
        /\ BeforeShutdown(k)

(* C37: no accepted operation is left behind by the worker: once it has    *)
(* exited, every operation try_send accepted, also behind a Shutdown and   *)
(* while the worker was waking the last waiters, has been handled.         *)
C37_NoDroppedWrite ==
    wpc = "exited"
        => /\ queue = << >>
           /\ Len(applied) = Len(accepted)
           /\ \A k \in 1..Len(accepted) : applied[k].op = accepted[k]

(* The fields the parser got from create. *)
ParserTargets == { qret.parser[j][1] : j \in 1..Len(qret.parser) }

(* C38: without fast-fuzzy in effect the fuzzy factory targets no          *)
(* pre-processed field, whether or not the schema has one, and in every    *)
(* case the fuzzy factory targets only fields the parser targets.          *)
C38_FuzzyOnDeclared ==
    qret.ok =>
        /\ ~FastFuzzy
              => \A name \in FieldNames : PreProcessedField(name) \notin FuzzyTargets
        /\ FuzzyTargets \subseteq ParserTargets

(* The boost of a field of the parser that was given none. *)
NeutralBoost == "1.0"

(* C39: each field of the parser has the boost boost_fields gives its      *)
(* search field, and the neutral boost when boost_fields has no entry for  *)
(* it.                                                                     *)
C39_FieldBoosts ==
    qret.ok =>
        \A i \in 1..Len(qargs.ctx.search_fields) :
            qret.parser[i][2]
                = IF qargs.ctx.search_fields[i] \in qargs.ctx.boost_fields
                  THEN "given" ELSE NeutralBoost

(* The path is "/indexes/" and one more piece of text without a slash: the *)
(* route of the index of that name.                                        *)
IndexRoute(path) ==
    /\ Len(path) = 4
    /\ SubSeq(path, 1, 3) = <<"/", "indexes", "/">>
    /\ path[4] # "/"

(* The path begins with the text "/indexes" or "/auth" and goes on with    *)
(* text other than a slash: it is neither route.                           *)
LooksLikeRoute(path) ==
    /\ Len(path) >= 3
    /\ path[2] \in {"indexes", "auth"}
    /\ path[3] # "/"

(* C40: with auth enabled and a known token, a request to /indexes/{name}  *)
(* passes exactly when the token has MODIFY_DOCUMENTS, whatever the name   *)
(* is, and a request whose path only begins like /indexes or /auth is      *)
(* answered 404.                                                           *)
C40_NoPrivilegeConfusion ==
    CheckedKnownToken =>
        /\ IndexRoute(lastCheck.path)
              => (lastCheck.outcome = "pass"
                    <=> "MODIFY_DOCUMENTS" \in tokens[lastCheck.header.token])
        /\ LooksLikeRoute(lastCheck.path) => lastCheck.outcome = "404"

=============================================================================
